---------------------------- MODULE Spec2Model ----------------------------
(***************************************************************************)
(* Model of the server side of the sailboat simulator                      *)
(* (src/sailboat_simulator_v2022.6.24_stable/simulator.py):                *)
(*   ProcManager.main_loop / connection_accept_loop  (intake queue, tick)  *)
(*   ProcManager.parse_client_data / parse_admin_command                   *)
(*   Simulator.update / authenticate_client / client_connect               *)
(*   ClientHandler.update, Autopilot.update, Sailboat.update               *)
(*   extras.RudderInput, extras.validate_config_dict                       *)
(*                                                                         *)
(* Python values are modelled as follows.  An optional value (a dict key   *)
(* that may be absent, or a value that may be None) is a set with at most  *)
(* one element: {} is "absent"/None, {x} is x.  Python's 0-based list      *)
(* indices are 1-based sequence positions here.  A Python exception that   *)
(* nothing catches is the flag `raised` of the value an operator returns.  *)
(***************************************************************************)
EXTENDS Integers, Sequences, FiniteSets, TLC

VARIABLES
    handlers,      \* Simulator.client_handlers: username -> ClientHandler state
    sim,           \* Simulator fields: password, send_client_states_to_admin
    alive,         \* no uncaught exception has ended the main_loop thread
    connections,   \* main_loop: the batch `connections` of the current/last tick
    sent,          \* what main_loop sent on each connection of that batch
    trace,         \* observation of the last Simulator.update call (see Update)
    queue,         \* ProcManager.waiting_connections
    lock,          \* ProcManager.waiting_connections_lock
    pcMain,        \* position of main_loop in its iteration
    pcAccept,      \* position of connection_accept_loop
    nextId,        \* number of connections accepted so far
    dropped        \* ids of the connections deleted from the queue that were in no batch

vars == <<handlers, sim, alive, connections, sent, trace,
          queue, lock, pcMain, pcAccept, nextId, dropped>>

-----------------------------------------------------------------------------
(* Values *)

ADMIN == "__admin__"
\* insertion order of Simulator.client_handlers (the 'clients' dict of the sim file)
UserOrder == <<"__admin__", "u1">>
Users == {UserOrder[i] : i \in 1..Len(UserOrder)}
\* a username no session is registered under
GHOST == "ghost"
\* Python None where a string is expected (a JSON null)
NULL == "<null>"
\* the simulation password of the sim file, and the contacts' passwords
SimPassword == "sim-pw"
PasswordOf(u) == IF u = ADMIN THEN "admin-code" ELSE "pw-" \o u

Some(x) == {x}
Nothing == {}
The(o) == CHOOSE x \in o : TRUE

Min(a, b) == IF a < b THEN a ELSE b
Max(a, b) == IF a > b THEN a ELSE b
Abs(a) == IF a < 0 THEN -a ELSE a


-----------------------------------------------------------------------------
(* Client input values *)

\* the 'boat' value of a user-input: optional 'rudder', optional
\* 'sheeting-angles' = {'main': angle}
BoatInput(rudder, sheet) == [rudder |-> rudder, sheet |-> sheet]
\* the 'autopilot' value of a user-input: optional 'enabled', optional 'target-pos'
ApInput(enabled, target) == [enabled |-> enabled, target |-> target]
NoBoatInput == BoatInput(Nothing, Nothing)
NoApInput == ApInput(Nothing, Nothing)

\* Shapes of a 'target-pos' value a request can carry:
\*   "global"     ['global-pos', [x, y]]
\*   "user-ghost" ['user', <a username with no session>]
\*   "badtype"    a 2-item list whose 1st item is no known target type
\*   "badlen"     a list (or string) that is not a 2-item list
\*   "notlist"    a value list() cannot convert (a number)
TargetInputs == {"global", "user-ghost", "badtype", "badlen", "notlist"}

\* the 'user-input' dict of an UPDATE payload.  typed = FALSE: some key holds a
\* value that cannot be converted to the type ClientHandler.update asks for.
UserInput(typed, boat, ap, paused, reset) ==
    [typed |-> typed, boat |-> boat, autopilot |-> ap, paused |-> paused, reset |-> reset]
\* ClientHandler.default_user_input, and the {} Simulator.update passes for an
\* absent controller
EmptyInput == UserInput(TRUE, NoBoatInput, NoApInput, Nothing, FALSE)

-----------------------------------------------------------------------------
(* extras.RudderInput and FlatObjectPhysics.set_angle *)

RudderPriority == <<"internal", "client", "autopilot">>

\* recalculate_angle scanning the sources from the lowest priority
recalculate_angle_lowest(s) ==
    LET set == {i \in 1..Len(RudderPriority) : s.inputs[RudderPriority[i]] # Nothing}
    IN  IF set = {}
        THEN [s EXCEPT !.curr_input = Nothing, !.input_force = FALSE]
        ELSE LET first == CHOOSE i \in set : \A j \in set : i >= j
                 name == RudderPriority[first]
             IN  [s EXCEPT !.curr_input = Some(name),
                           !.rudder_angle = The(s.inputs[name]) + 270,
                           !.input_force = TRUE]

\* RudderInput.recalculate_angle: the first source in priority order that is set
\* drives the rudder to its angle + 270; none set: the rudder swings free
recalculate_angle(s) ==
    LET set == {i \in 1..Len(RudderPriority) : s.inputs[RudderPriority[i]] # Nothing}
    IN  IF set = {}
        THEN [s EXCEPT !.curr_input = Nothing, !.input_force = FALSE]
        ELSE LET first == CHOOSE i \in set : \A j \in set : i <= j
                 name == RudderPriority[first]
             IN  [s EXCEPT !.curr_input = Some(name),
                           !.rudder_angle = The(s.inputs[name]) + 270,
                           !.input_force = TRUE]

set_input(s, name, angle) ==
    recalculate_angle([s EXCEPT !.inputs[name] = Some(Max(-90, Min(90, angle)))])

disable_input(s, name) ==
    recalculate_angle([s EXCEPT !.inputs[name] = Nothing])

-----------------------------------------------------------------------------
(* Autopilot *)

\* the rudder angle Autopilot.aim_for_angle commands; the bearing geometry that
\* yields it is not modelled
AutopilotRudder == 0

set_enabled_state(s, state) ==
    LET s1 == [s EXCEPT !.ap_enabled = state]
    IN  IF state THEN s1 ELSE disable_input(s1, "autopilot")

aim_for_angle(s) ==
    IF ~s.ap_enabled THEN s ELSE set_input(s, "autopilot", AutopilotRudder)

\* Autopilot.update(sim_t, user_input): [s: the session after it, raised: it raised]
AutopilotUpdate(s, ui) ==
    IF ui.target # Nothing /\ The(ui.target) = "notlist"
    THEN [s |-> s, raised |-> TRUE]                    \* validate_config_dict
    ELSE
      LET s1 == IF ui.enabled # Nothing
                THEN set_enabled_state(s, The(ui.enabled)) ELSE s
      IN  IF ui.target # Nothing /\ The(ui.target) = "badlen"
          THEN [s |-> s1, raised |-> TRUE]             \* assert 2-item list
          ELSE
            \* get_global_target_pos stores the list before it checks its type
            LET s2 == IF ui.target # Nothing
                      THEN [s1 EXCEPT !.target = The(ui.target)] ELSE s1
            IN  IF s2.target \in {"badtype", "user-ghost"}
                THEN [s |-> s2, raised |-> TRUE]       \* assert type_ / KeyError
                ELSE [s |-> aim_for_angle(s2), raised |-> FALSE]

-----------------------------------------------------------------------------
(* Python floats, in miniature, and WindGenerator.get_vector *)

\* A float is an integer number of units with a mantissa of FloatBits bits: up
\* to 2^FloatBits units every integer is a float, from there on every second,
\* then every fourth, ...  DegreeUnits units are one degree, so that, as for
\* Python's floats, there are floats near 0 that are finer than the distance
\* between the floats near 360.
FloatBits == 11
DegreeUnits == 8

\* the distance between the floats of the magnitude of v
RECURSIVE Spacing(_)
Spacing(v) == IF Abs(v) < 2 ^ FloatBits THEN 1 ELSE 2 * Spacing(Abs(v) \div 2)

\* the float nearest to the number v, ties to the even mantissa: the result
\* of an arithmetic operation whose exact result is v
RoundFloat(v) ==
    LET u == Spacing(v)
        lo == (v \div u) * u
        rem == v - lo
    IN  IF 2 * rem < u THEN lo
        ELSE IF 2 * rem > u THEN lo + u
        ELSE IF (lo \div u) % 2 = 0 THEN lo ELSE lo + u

\* Python's x % y on floats, y > 0: C's fmod (exact, with the sign of x), then
\* y is added to a negative remainder
FloatMod(x, y) ==
    LET mod == IF x >= 0 THEN x % y ELSE -((-x) % y)
    IN  IF mod < 0 THEN RoundFloat(mod + y) ELSE mod

\* WindGenerator.get_vector(t): ds and dd are the values of
\* (random.randint(..) / 100) * t for the speed and for the direction
get_vector(w, ds, dd) ==
    [w EXCEPT !.speed = Max(Min(RoundFloat(w.speed + ds), w.max_gust), 0),
              !.direction = FloatMod(RoundFloat(w.direction + dd), 360 * DegreeUnits)]

-----------------------------------------------------------------------------
(* Sailboat.update *)

\* settings['sanity-limits']: 'velocity' and 'angular-velocity'
SanityVelocity == 4
SanityAngular == 4

\* What the world does to one boat in a tick.  The forces are not modelled: dv1,
\* dv2 (dw1, dw2) are the changes (TFA * t) / mass of the velocity ((torque * t) /
\* moment of the angular velocity) in the two half-steps of Sailboat.update, and
\* da1, da2 the `change` the apparent wind makes to the sail's angle in them.
\* map_hit: Map.detect_collision finds the boat on land after the step; at_end:
\* the end point of the map is within the boat's perimeter after the step.
BoatWorld(dv1, dv2, dw1, dw2, da1, da2, map_hit, at_end) ==
    [dv1 |-> dv1, dv2 |-> dv2, dw1 |-> dw1, dw2 |-> dw2, da1 |-> da1, da2 |-> da2,
     map_hit |-> map_hit, at_end |-> at_end]
CalmBoat == BoatWorld(0, 0, 0, 0, 0, 0, FALSE, FALSE)

\* extras.is_angle_between(x, a, b)
is_angle_between(x, a, b) ==
    0 < (x - a) % 360 /\ (x - a) % 360 < (b - a) % 360

\* extras.sign of a number
sign(val) == IF val >= 0 THEN 1 ELSE -1

\* FlatObjectPhysics._update(sim_t, fluid_momentum, travel) of an object at
\* angle `angle0`: its angle after the step, limits_reached and the flag `force`
\* the returned force is multiplied with; `change` is the angle the fluid turns
\* a free-swinging object by in the step
_update(angle0, input_force, change, travel) ==
    IF input_force
    THEN [angle |-> angle0, limits_reached |-> FALSE, force |-> TRUE]
    ELSE LET angle == (angle0 + change) % 360
             curr_limit_angle == travel[((sign(change) + 1) \div 2) + 1]
         IN  IF ~is_angle_between(angle, travel[1], travel[2])
             THEN IF change # 0
                  THEN [angle |-> curr_limit_angle, limits_reached |-> TRUE, force |-> TRUE]
                  ELSE [angle |-> angle, limits_reached |-> FALSE, force |-> TRUE]
             ELSE [angle |-> angle, limits_reached |-> FALSE, force |-> FALSE]

\* Sail.update: FlatObjectPhysics._update of a sail (its input_force is never
\* set) with the travel limits of its sheeting angle; `change` is the angle the
\* wind turns it by in the step
SailUpdate(s, change) ==
    [s EXCEPT !.sail_angle =
        _update(@, FALSE, change, <<270 - s.sheeting_angle, 270 + s.sheeting_angle>>).angle]

\* Sailboat.check_sanity_limits; `clamped` records that a value was zeroed
check_sanity_limits(s) ==
    LET fast == Abs(s.velocity) >= SanityVelocity
        spin == Abs(s.angular_velocity) >= SanityAngular
    IN  [s EXCEPT !.sanity_limits_reached = fast \/ spin,
                  !.velocity = IF fast THEN 0 ELSE @,
                  !.angular_velocity = IF spin THEN 0 ELSE @,
                  !.clamped = @ \/ fast \/ spin]

\* Sailboat.update_physics(t): the sail (update_forces), velocity and angular
\* velocity
update_physics(s, dv, dw, da) ==
    check_sanity_limits([SailUpdate(s, da) EXCEPT !.velocity = @ + dv,
                                                  !.angular_velocity = @ + dw])

\* Sailboat.average_state with the state `rec` of record_state
average_state(s, rec) ==
    [s EXCEPT !.pos = (rec.pos + @) \div 2,
              !.angle = (rec.angle + @) \div 2,
              !.velocity = (rec.velocity + @) \div 2,
              !.angular_velocity = (rec.angular_velocity + @) \div 2]

\* Sailboat.update_physics(t) with its time step: the total force gives the
\* acceleration acc = TFA / mass, the torque gives alpha = torque / moment
\* (both constant over the update); the sails are left out
update_physics_in_time(s, t, acc, alpha) ==
    check_sanity_limits(
        [s EXCEPT !.velocity = @ + acc * t,
                  !.angular_velocity = @ + alpha * t,
                  !.pos = @ + (s.velocity + acc * t) * t,
                  !.angle = @ + (s.angular_velocity + alpha * t) * t])

\* Sailboat.update lines 592-598 with the frame time: two half-steps, the
\* average of their results, a step of 0, and the heading taken modulo 360
Motion(s, frame_t, acc, alpha) ==
    LET Last(h) == [h EXCEPT !.angle = @ % 360]
        Third(h1, h2) == Last(update_physics_in_time(average_state(h2, h1), 0, acc, alpha))
        Second(h1) == Third(h1, update_physics_in_time(h1, frame_t \div 2, acc, alpha))
    IN  Second(update_physics_in_time(s, frame_t \div 2, acc, alpha))

\* lines 592-596: two half-steps, the average of their results, a step of 0
Physics(s, e) ==
    LET Last(h1, h2) == update_physics(average_state(h2, h1), 0, 0, 0)
        Second(h1) == Last(h1, update_physics(h1, e.dv2, e.dw2, e.da2))
    IN  Second(update_physics([s EXCEPT !.clamped = FALSE], e.dv1, e.dw1, e.da1))

SailboatUpdate(s, ui, e) ==
    IF ui.rudder # Nothing /\ ~(-90 <= The(ui.rudder) /\ The(ui.rudder) <= 90)
    THEN [s |-> s, raised |-> TRUE]
    ELSE
      LET s1 == IF ui.rudder # Nothing
                THEN set_input(s, "client", The(ui.rudder))
                ELSE disable_input(s, "client")
      IN  IF ui.sheet # Nothing /\ ~(0 <= The(ui.sheet) /\ The(ui.sheet) <= 90)
          THEN [s |-> s1, raised |-> TRUE]
          ELSE [s |-> Physics(IF ui.sheet # Nothing
                              THEN [s1 EXCEPT !.sheeting_angle = The(ui.sheet)] ELSE s1, e),
                raised |-> FALSE]

-----------------------------------------------------------------------------
(* ClientHandler *)

\* the boat start configuration of the sim file ('boat-start')
StartSheet == 90
StartRudder == 270
StartSail == 270

get_paused_state(s) == s.paused \/ s.globally_paused

\* ClientHandler.set_paused_state(paused, type_)
\* set_paused_state that starts the timer of every session that is not paused
set_paused_state_starting(s, paused, type_) ==
    LET Timer(s1) ==
            IF s1.paused \/ s1.globally_paused
            THEN [s1 EXCEPT !.timer_running = FALSE]
            ELSE [s1 EXCEPT !.timer_running = TRUE]
    IN  Timer(IF type_ = "local" THEN [s EXCEPT !.paused = paused]
                                 ELSE [s EXCEPT !.globally_paused = paused])

\* extras.Timer.stop: a running timer adds the time since its start to the
\* total.  Times are zero (0) or positive (1)
timer_stop(s) ==
    IF s.timer_running THEN [s EXCEPT !.timer_running = FALSE, !.timer_total = 1] ELSE s

set_paused_state(s, paused, type_) ==
    LET Timer(s1) ==
            IF get_paused_state(s1) THEN timer_stop(s1)
            ELSE IF s1.enabled /\ ~s1.finished THEN [s1 EXCEPT !.timer_running = TRUE]
            ELSE s1
    IN  Timer(IF type_ = "local" THEN [s EXCEPT !.paused = paused]
                                 ELSE [s EXCEPT !.globally_paused = paused])

\* boat.mass (static boat config): every boat is of the same type
Mass == 1
\* max-hull-durability of the boat type, in hundredths of a durability point
MaxHull == 4

\* an entry of ClientHandler.client_events: 'collision <damage>', 'shipwreck',
\* 'finished <time> <record>', 'reset'
Event(name, value) == [name |-> name, value |-> value]

\* s.events.append(name) (when `both`) and s.client_events.append(...)
QueueEvent(s, name, value, both) ==
    [s EXCEPT !.events = IF both THEN Append(@, name) ELSE @,
              !.client_events = Append(@, Event(name, value)),
              !.log = Append(@, Event(name, value))]

\* the reset of a session without the assignment `s.paused = False`
reset_keeping_pause(s) ==
    QueueEvent([s EXCEPT !.sheeting_angle = StartSheet,
                         !.sail_angle = StartSail,
                         !.rudder_angle = StartRudder,
                         !.input_force = TRUE,
                         !.velocity = 0,
                         !.angular_velocity = 0,
                         !.hull = IF s.max_hull = -1 THEN @ ELSE s.max_hull,
                         !.finished = FALSE,
                         !.enabled = TRUE,
                         !.tracer_lst = <<>>,
                         !.timer_total = 0,
                         !.timer_running = ~get_paused_state(s)],
               "reset", 0, TRUE)

\* ClientHandler.reset: setup(boat_start_config) rebuilds the sails and sets the
\* velocities, the hull durability and the rudder angle of the start
\* configuration; the rudder arbiter's inputs are not touched
reset(s) ==
    QueueEvent([s EXCEPT !.sheeting_angle = StartSheet,
                         !.sail_angle = StartSail,
                    !.rudder_angle = StartRudder,
                    !.input_force = TRUE,
                    !.velocity = 0,
                    !.angular_velocity = 0,
                    !.hull = IF s.max_hull = -1 THEN @ ELSE s.max_hull,
                    !.finished = FALSE,
                    !.enabled = TRUE,
                    !.paused = FALSE,
                    !.tracer_lst = <<>>,
                    !.timer_total = 0,
                    !.timer_running = ~s.globally_paused],
          "reset", 0, TRUE)

\* shipwreck without `s.enabled = False`
shipwreck_enabled(s) ==
    [set_enabled_state(QueueEvent(timer_stop(s), "shipwreck", 0, TRUE),
                       FALSE)
        EXCEPT !.velocity = 0, !.angular_velocity = 0]

\* ClientHandler.shipwreck
shipwreck(s) ==
    [set_enabled_state(QueueEvent(timer_stop(s), "shipwreck", 0, TRUE),
                       FALSE)
        EXCEPT !.velocity = 0, !.angular_velocity = 0, !.enabled = FALSE]

\* damage without the test `s.boat.hull_durability == 0`
damage_of_wreck(s, speed, mass) ==
    IF s.max_hull = -1 THEN s
    ELSE LET Wreck(s1) == IF s1.hull = 0 THEN shipwreck(s1) ELSE s1
         IN  Wreck(QueueEvent([s EXCEPT !.hull = Max(@ - speed * mass, 0)],
                              "collision", speed * mass, FALSE))

\* ClientHandler.damage(speed, mass); the damage speed * mass * 0.01 is
\* speed * mass hundredths
damage(s, speed, mass) ==
    IF s.max_hull = -1 \/ s.hull = 0 THEN s
    ELSE LET Wreck(s1) == IF s1.hull = 0 THEN shipwreck(s1) ELSE s1
         IN  Wreck(QueueEvent([s EXCEPT !.hull = Max(@ - speed * mass, 0)],
                         "collision", speed * mass, FALSE))

\* extras.validate_config_dict(user_input, default_user_input, types):
\* {**default, **d}
MergeInput(ui) == [ui EXCEPT !.typed = TRUE]

\* ClientHandler.update lines 1258-1275: only when the client is connected
TakeInput(s, ui) ==
    LET s1 == IF ui.typed THEN [s EXCEPT !.user_input = MergeInput(ui)] ELSE s
        s2 == IF ~s1.enabled THEN [s1 EXCEPT !.user_input.autopilot = NoApInput] ELSE s1
        s3 == IF s2.user_input.paused # Nothing
              THEN set_paused_state(s2, The(s2.user_input.paused), "local") ELSE s2
    IN  IF s3.user_input.reset
        THEN [reset(s3) EXCEPT !.user_input.reset = FALSE]
        ELSE s3

\* ClientHandler.update lines 1291-1297: collision with the map
MapCollision(s, e) ==
    IF ~(e.map_hit /\ s.enabled) THEN s
    ELSE LET Bounce(s1) ==
                 IF s1.enabled
                 THEN [s1 EXCEPT !.velocity = -@, !.angular_velocity = -@]
                 ELSE s1
         IN  Bounce(damage(s, Abs(s.velocity), Mass))

\* lines 1287-1289: the path trace gets the boat's position when it is empty
\* or the boat is tracer-resolution away from its last point
tracer(s) ==
    IF s.tracer_lst = <<>> THEN [s EXCEPT !.tracer_lst = <<s.pos>>] ELSE s

\* lines 1298-1300
SanityAlert(s) ==
    IF s.sanity_limits_reached
    THEN [s EXCEPT !.client_alerts = Append(@, "sanity limits reached")]
    ELSE s

\* lines 1306-1309: the time of the timer becomes the record when there is
\* none or it is less than the record
new_record(s) ==
    IF s.record = Nothing \/ s.timer_total < The(s.record)
    THEN [s EXCEPT !.record = Some(s.timer_total)] ELSE s

\* the finish detection without the test `if not s.finished`
FinishCheck_every_tick(s, e) ==
    IF e.at_end /\ s.enabled
    THEN QueueEvent(new_record([timer_stop(s) EXCEPT !.finished = TRUE]), "finished", 0, TRUE)
    ELSE s

\* lines 1301-1311: the boat has got to the end position
FinishCheck(s, e) ==
    IF e.at_end /\ s.enabled /\ ~s.finished
    THEN QueueEvent(new_record([timer_stop(s) EXCEPT !.finished = TRUE]), "finished", 0, TRUE)
    ELSE s

AfterBoat(s, e) == FinishCheck(SanityAlert(MapCollision(s, e)), e)

\* the end of the call with the client's queues emptied in every call
ReturnDict_always_emptying(r, client_listening) ==
    LET give == r.success /\ client_listening
    IN  [r EXCEPT !.s = [@ EXCEPT !.events = <<>>,
                                  !.client_alerts = <<>>,
                                  !.client_events = <<>>]]
        @@ [events |-> r.s.events,
            alerts |-> IF give THEN Some(r.s.client_alerts) ELSE Nothing,
            client_events |-> IF give THEN Some(r.s.client_events) ELSE Nothing]

\* lines 1312-1339: what the call returns and the queues it empties.  events:
\* return_dict['events']; alerts, client_events: those handed to the client
\* (only to a listening client of a call without error)
ReturnDict(r, client_listening) ==
    LET give == r.success /\ client_listening
    IN  [r EXCEPT !.s = [@ EXCEPT !.events = <<>>,
                                  !.client_alerts = IF give THEN <<>> ELSE @,
                                  !.client_events = IF give THEN <<>> ELSE @]]
        @@ [events |-> r.s.events,
            alerts |-> IF give THEN Some(r.s.client_alerts) ELSE Nothing,
            client_events |-> IF give THEN Some(r.s.client_events) ELSE Nothing]

\* ClientHandler.update(sim_t, global_wind, user_input, client_listening):
\* [s: the session after it, success: 'client-success', ap_input: the dict given
\* to Autopilot.update, boat_input: the dict given to Sailboat.update (optional:
\* a disabled or paused boat is not updated), events, alerts, client_events]
ClientHandlerUpdate(s, ui, client_listening, e) ==
    LET e0 == client_listening /\ ~ui.typed
        \* s1: after the input is taken; a: after Autopilot.update; b: after
        \* Sailboat.update, which runs when the boat is enabled and not paused (go)
        Result(s1, a, go, b) ==
            ReturnDict([s |-> AfterBoat(b.s, e), success |-> ~(e0 \/ a.raised \/ b.raised),
                       ap_input |-> s1.user_input.autopilot,
                       boat_input |-> IF go THEN Some(a.s.user_input.boat) ELSE Nothing],
                      client_listening)
        Boat(s1, a, go) ==
            Result(s1, a, go, IF go THEN [SailboatUpdate(a.s, a.s.user_input.boat, e)
                                              EXCEPT !.s = tracer(@)]
                                    ELSE [s |-> a.s, raised |-> FALSE])
        Pilot(s1, a) == Boat(s1, a, a.s.enabled /\ ~get_paused_state(a.s))
        Input(s1) == Pilot(s1, AutopilotUpdate(s1, s1.user_input.autopilot))
    IN  Input(IF client_listening THEN TakeInput(s, ui) ELSE s)


-----------------------------------------------------------------------------
(* Requests *)

\* An UPDATE payload (client_data[1]) as Simulator.update looks at it:
\*   dict       type(client_dict) == dict
\*   has_auth, has_rd   the required keys 'auth', 'render-dist' are present
\*   auth_list  list(auth) works;  auth: the items of that list
\*   rd_type    'render-dist' is a number ("float"), a string float() accepts
\*              ("str"), or a value float() rejects ("bad");  rd: its value
\*   ui_dict    dict(user-input) works;  ui: the user-input
\*   extra      'render-dist-extra-boats' (optional), cmds: 'admin-commands' (optional)
Payload(dict, has_auth, has_rd, auth_list, auth, rd_type, rd, ui_dict, ui, extra, cmds) ==
    [dict |-> dict, has_auth |-> has_auth, has_rd |-> has_rd, auth_list |-> auth_list,
     auth |-> auth, rd_type |-> rd_type, rd |-> rd, ui_dict |-> ui_dict, ui |-> ui,
     extra |-> extra, cmds |-> cmds]

\* a well-formed payload with these credentials and this input
Good(auth, ui) ==
    Payload(TRUE, TRUE, TRUE, TRUE, auth, "float", 0, TRUE, ui, Nothing, Nothing)

\* a connection's message: [COMMAND, payload]; "BAD" is a message
\* parse_client_data rejects before it looks at the payload
Request(cmd, payload) == [cmd |-> cmd, payload |-> payload]
\* an accepted connection: the id-th accepted, carrying that message
Connection(id, req) == [id |-> id, cmd |-> req.cmd, payload |-> req.payload]

\* an administrative command list [VERB, user]
Cmd(verb, user) == [verb |-> verb, user |-> user]

\* Responses.  kind: "format", "auth", "admin-error", "session-error" (ok = FALSE),
\* "state" (an UPDATE's world state), "join" (a JOIN's world state), "invalid"
\* (parse_client_data's error), "none" (nothing).
\*   built_for     position in the batch given to Simulator.update of the request
\*                 the response was built from (0: none)
\*   user          the username whose credentials, session or position it is about
\*   admin         the administrator's extras were applied
\*   full          the usernames reported with full state
\*   client_states 'client-states' (all passwords) is included
Resp(ok, kind, built_for, user, admin, full, client_states) ==
    [ok |-> ok, kind |-> kind, built_for |-> built_for, user |-> user, admin |-> admin,
     full |-> full, client_states |-> client_states]
NoResp == Resp(FALSE, "none", 0, "", FALSE, {}, FALSE)
Failure(kind, i, user) == Resp(FALSE, kind, i, user, FALSE, {}, FALSE)

-----------------------------------------------------------------------------
(* Simulator.authenticate_client, client_connect *)

\* authenticate_client(username, psswd, sim_psswd): c.sim and c.h are read
\* authenticate_client without the test of ClientHandler.blocked
authenticate_client_unblocked(c, username, psswd, sim_psswd) ==
    IF c.sim.password # Nothing /\ sim_psswd # NULL /\ The(c.sim.password) # sim_psswd
    THEN FALSE
    ELSE \E u \in Users : u = username /\ c.h[u].password = psswd

authenticate_client(c, username, psswd, sim_psswd) ==
    IF c.sim.password # Nothing /\ sim_psswd # NULL /\ The(c.sim.password) # sim_psswd
    THEN FALSE
    ELSE \E u \in Users : u = username /\ c.h[u].password = psswd /\ ~c.h[u].blocked

\* authenticate_client(*auth): a list of 2 items leaves sim_psswd at its default None
AuthArityOk(auth) == Len(auth) \in {2, 3}
AuthCall(c, auth) ==
    authenticate_client(c, auth[1], auth[2], IF Len(auth) = 3 THEN auth[3] ELSE NULL)

\* Simulator.users_in_render_dist(radius, pos); positions are on a line
PerimMaxRadius == 1
\* users_in_render_dist with the comparison the other way round
users_in_render_dist_beyond(h, radius, pos) ==
    {u \in Users : Abs(h[u].pos - pos) - PerimMaxRadius > radius}

users_in_render_dist(h, radius, pos) ==
    {u \in Users : Abs(h[u].pos - pos) - PerimMaxRadius < radius}

\* Simulator.client_connect(auth, ip) as parse_client_data calls it for a JOIN:
\* the response sent (every exception is caught there)
client_connect(c, d) ==
    IF ~d.dict \/ ~d.has_auth \/ ~d.auth_list \/ Len(d.auth) # 3
    THEN Failure("invalid", 0, "")
    ELSE IF ~authenticate_client(c, d.auth[1], d.auth[2], d.auth[3])
         THEN Failure("auth", 0, d.auth[1])
         ELSE Resp(TRUE, "join", 0, d.auth[1], d.auth[1] = ADMIN, Users, FALSE)

-----------------------------------------------------------------------------
(* ProcManager.parse_admin_command *)

AdminVerbs == {"USER-BLOCK", "USER-UNBLOCK", "USER-RESET", "USER-TOGGLE-PAUSE",
               "USER-REPAIR", "TOGGLE-PAUSE", "STATUS", "SET-TIME-CONST"}

\* lines 2136-2145: USER-REPAIR
repair(s) ==
    IF ~s.enabled THEN s
    ELSE [s EXCEPT !.hull = s.max_hull,
                   !.client_alerts = Append(@, "Boat durability fixed by Admin")]

set_blocked(s, blocked) == [s EXCEPT !.blocked = blocked]

\* Simulator.toggle_paused_state
toggle_paused_state(c) ==
    LET p == ~c.sim.paused
    IN  [c EXCEPT !.sim.paused = p,
                  !.h = [u \in Users |-> set_paused_state(c.h[u], p, "global")]]

\* parse_admin_command(lst): [c: the state after it, raised: it raised]
\* Simulator.set_time_ratio(ratio) with a number: Timer.set_ratio stops each
\* session's timer and starts it again if it was running
set_time_ratio(c) ==
    [c EXCEPT !.h = [u \in Users |->
                        [timer_stop(c.h[u]) EXCEPT !.timer_running = c.h[u].timer_running]]]

parse_admin_command(c, lst) ==
    IF lst.verb \notin AdminVerbs
    THEN [c |-> c, raised |-> TRUE]
    ELSE [raised |-> FALSE,
          c |-> CASE lst.verb = "USER-BLOCK" /\ lst.user \in Users ->
                       [c EXCEPT !.h[lst.user] = set_blocked(@, TRUE)]
                  [] lst.verb = "USER-UNBLOCK" /\ lst.user \in Users ->
                       [c EXCEPT !.h[lst.user] = set_blocked(@, FALSE)]
                  [] lst.verb = "USER-RESET" /\ lst.user \in Users ->
                       [c EXCEPT !.h[lst.user] = reset(@)]
                  [] lst.verb = "USER-REPAIR" /\ lst.user \in Users ->
                       [c EXCEPT !.h[lst.user] = repair(@)]
                  [] lst.verb = "USER-TOGGLE-PAUSE" /\ lst.user \in Users ->
                       [c EXCEPT !.h[lst.user] = set_paused_state(@, ~@.paused, "local")]
                  [] lst.verb = "TOGGLE-PAUSE" -> toggle_paused_state(c)
                  [] lst.verb = "SET-TIME-CONST" -> set_time_ratio(c)
                  [] lst.verb = "STATUS" ->
                       [c EXCEPT !.sim.send_client_states_to_admin = TRUE]
                  [] OTHER -> c]


-----------------------------------------------------------------------------
(* Simulator.update *)

\* The running state of one Simulator.update(user_input) call:
\*   h, sim     client_handlers and the Simulator's fields
\*   ret        user_returns: position -> response (NoResp: no entry)
\*   chi        client_handler_input: username -> optional [ui, from] (the
\*              user-input and the position of the request it came from)
\*   extra      admin_render_dist_include_boats (Nothing: never assigned)
\*   raised     an exception left Simulator.update
\*   authed     positions of the requests that passed authenticate_client
\*   denied     positions of the requests authenticate_client rejected
\*   commanded  positions of the requests whose admin-commands were executed
\*   advanced   usernames in the order ClientHandler.update was called
\*   failed     usernames whose ClientHandler.update reported an error
\*   applied    username -> optional [autopilot, boat]: the input dicts its
\*              ClientHandler.update handed to the autopilot and to the boat
\*   out        username -> optional [events, alerts, client_events]: what its
\*              ClientHandler.update returned
\*   after      username -> optional session as its ClientHandler.update left it
\*   world      what the world does in this tick: boat[u] for each boat, and
\*              touching, the pairs of positions in UserOrder of the boats whose
\*              hulls touch after all sessions are advanced
StartCall(h0, sim0, n, world) ==
    [h |-> h0, sim |-> sim0, ret |-> [i \in 1..n |-> NoResp],
     chi |-> [u \in Users |-> Nothing], extra |-> Nothing, raised |-> FALSE,
     authed |-> {}, denied |-> {}, commanded |-> {}, advanced |-> <<>>, failed |-> {},
     applied |-> [u \in Users |-> Nothing], out |-> [u \in Users |-> Nothing],
     after |-> [u \in Users |-> Nothing], world |-> world]

\* lines 1712-1715: the commands of one request, until one raises
RECURSIVE RunCommands(_, _, _, _)
RunCommands(c, cmds, k, i) ==
    IF k > Len(cmds) THEN c
    ELSE LET r == parse_admin_command(c, cmds[k])
         IN  IF r.raised
             THEN [r.c EXCEPT !.ret[i] = Failure("admin-error", i, ADMIN)]
             ELSE RunCommands(r.c, cmds, k + 1, i)

\* lines 1709-1719: the administrator's request
AdminPart(c, d, i) ==
    LET c1 == IF d.cmds # Nothing
              THEN [RunCommands(c, The(d.cmds), 1, i) EXCEPT !.commanded = @ \cup {i}]
              ELSE c
    IN  [c1 EXCEPT !.extra = IF d.extra # Nothing THEN d.extra ELSE Some({})]

\* lines 1694-1719 for the request d at position i
ValidateOne(c, d, i) ==
    IF ~d.dict
    THEN [c EXCEPT !.ret[i] = Failure("format", i, "")]          \* AssertionError
    ELSE IF ~d.has_auth \/ ~d.has_rd
    THEN [c EXCEPT !.raised = TRUE]                              \* KeyError
    ELSE IF ~d.auth_list \/ ~d.ui_dict \/ d.rd_type = "bad"
    THEN [c EXCEPT !.ret[i] = Failure("format", i, "")]          \* AssertionError
    ELSE IF ~AuthArityOk(d.auth)
    THEN [c EXCEPT !.raised = TRUE]                              \* TypeError
    ELSE IF ~AuthCall(c, d.auth)
    THEN [c EXCEPT !.ret[i] = Failure("auth", i, d.auth[1]), !.denied = @ \cup {i}]
    ELSE LET c1 == [c EXCEPT !.chi[d.auth[1]] = Some([ui |-> d.ui, from |-> i]),
                             !.authed = @ \cup {i}]
         IN  IF d.auth[1] = ADMIN THEN AdminPart(c1, d, i) ELSE c1

RECURSIVE ValidateAll(_, _, _)
ValidateAll(c, L, i) ==
    IF i > Len(L) \/ c.raised THEN c
    ELSE ValidateAll(ValidateOne(c, L[i], i), L, i + 1)

\* d['auth'][0] on a raw request of the batch works
Subscriptable(d) == d.dict /\ d.has_auth /\ d.auth_list /\ Len(d.auth) >= 1

\* lines 1735-1739: the position the error of `username` is written to:
\* the first request naming it, else the last position reached; raised when
\* d['auth'][0] raises on the way or the batch is empty (the assert)
RECURSIVE FindRequester(_, _, _)
FindRequester(L, username, i) ==
    IF Len(L) = 0 THEN [raised |-> TRUE, i |-> 0]
    ELSE IF ~Subscriptable(L[i]) THEN [raised |-> TRUE, i |-> i]
    ELSE IF L[i].auth[1] = username \/ i = Len(L) THEN [raised |-> FALSE, i |-> i]
    ELSE FindRequester(L, username, i + 1)

\* lines 1722-1750 for one session
AdvanceOne(c, L, username) ==
    LET client_listening == c.chi[username] # Nothing
        curr_user_input == IF client_listening THEN The(c.chi[username]).ui ELSE EmptyInput
        \* r: what ClientHandler.update returned
        Record(r) ==
            LET c1 == [c EXCEPT !.h[username] = r.s, !.advanced = Append(@, username),
                                !.applied[username] =
                                    Some([autopilot |-> r.ap_input, boat |-> r.boat_input]),
                                !.out[username] =
                                    Some([events |-> r.events, alerts |-> r.alerts,
                                          client_events |-> r.client_events]),
                                !.after[username] = Some(r.s)]
            IN  IF r.success THEN c1
                ELSE LET f  == FindRequester(L, username, 1)
                         c2 == [c1 EXCEPT !.failed = @ \cup {username}]
                     IN  IF f.raised THEN [c2 EXCEPT !.raised = TRUE]
                         ELSE [c2 EXCEPT !.ret[f.i] = Failure("session-error", 0, username)]
    IN  Record(ClientHandlerUpdate(c.h[username], curr_user_input, client_listening,
                                   c.world.boat[username]))

RECURSIVE AdvanceAll(_, _, _)
AdvanceAll(c, L, j) ==
    IF j > Len(UserOrder) \/ c.raised THEN c
    ELSE AdvanceAll(AdvanceOne(c, L, UserOrder[j]), L, j + 1)

\* the collision of a pair in which each boat is damaged by its own speed
CollidePair_own_speed(h, touching, i0, i1) ==
    LET u0 == UserOrder[i0]
        u1 == UserOrder[i1]
        mass == Min(Mass, Mass)
        Bounce(a, b) ==
            IF a.enabled /\ b.enabled
            THEN [h EXCEPT ![u0] = [a EXCEPT !.velocity = b.velocity,
                                             !.angular_velocity = b.angular_velocity],
                           ![u1] = [b EXCEPT !.velocity = a.velocity,
                                             !.angular_velocity = a.angular_velocity]]
            ELSE IF b.enabled
            THEN [h EXCEPT ![u0] = a,
                           ![u1] = [b EXCEPT !.velocity = -@, !.angular_velocity = -@]]
            ELSE [h EXCEPT ![u0] = [a EXCEPT !.velocity = -@, !.angular_velocity = -@],
                           ![u1] = b]
    IN  IF ~(h[u0].enabled \/ h[u1].enabled) \/ <<i0, i1>> \notin touching THEN h
        ELSE Bounce(damage(h[u0], Abs(h[u0].velocity), mass),
                    damage(h[u1], Abs(h[u1].velocity), mass))

\* Simulator.detect_boat_collisions for the sessions at positions i0 < i1 of
\* client_handlers
CollidePair(h, touching, i0, i1) ==
    LET u0 == UserOrder[i0]
        u1 == UserOrder[i1]
        speed == Abs(h[u0].velocity - h[u1].velocity)
        mass == Min(Mass, Mass)
        Bounce(a, b) ==
            IF a.enabled /\ b.enabled
            THEN [h EXCEPT ![u0] = [a EXCEPT !.velocity = b.velocity,
                                             !.angular_velocity = b.angular_velocity],
                           ![u1] = [b EXCEPT !.velocity = a.velocity,
                                             !.angular_velocity = a.angular_velocity]]
            ELSE IF b.enabled
            THEN [h EXCEPT ![u0] = a,
                           ![u1] = [b EXCEPT !.velocity = -@, !.angular_velocity = -@]]
            ELSE [h EXCEPT ![u0] = [a EXCEPT !.velocity = -@, !.angular_velocity = -@],
                           ![u1] = b]
    IN  IF ~(h[u0].enabled \/ h[u1].enabled) \/ <<i0, i1>> \notin touching THEN h
        ELSE Bounce(damage(h[u0], speed, mass), damage(h[u1], speed, mass))

RECURSIVE CollideFrom(_, _, _, _)
CollideFrom(h, touching, i0, i1) ==
    IF i0 > Len(UserOrder) THEN h
    ELSE IF i1 > Len(UserOrder) THEN CollideFrom(h, touching, i0 + 1, i0 + 2)
    ELSE CollideFrom(CollidePair(h, touching, i0, i1), touching, i0, i1 + 1)

\* line 1753
detect_boat_collisions(c) ==
    IF c.raised THEN c ELSE [c EXCEPT !.h = CollideFrom(c.h, c.world.touching, 1, 2)]

\* positions without an entry in user_returns, in order (the list line 1755 builds)
RECURSIVE Unanswered(_, _)
Unanswered(ret, i) ==
    IF i > Len(ret) THEN <<>>
    ELSE (IF ret[i] = NoResp THEN <<i>> ELSE <<>>) \o Unanswered(ret, i + 1)

\* lines 1756-1775 for the k-th entry of that list, the request at position j:
\* `i` of the loop is the position in the filtered list, k
RespondOne(c, L, k, j) ==
    LET client_dict == L[j]
    IN  IF ~Subscriptable(L[k]) THEN [c EXCEPT !.raised = TRUE]      \* TypeError
        ELSE
          LET admin == L[k].auth[1] = ADMIN
              user  == client_dict.auth[1]
          IN  IF client_dict.rd_type # "float"
              THEN [c EXCEPT !.raised = TRUE]                        \* float < str
              ELSE IF admin /\ c.extra = Nothing
              THEN [c EXCEPT !.raised = TRUE]                        \* UnboundLocalError
              ELSE
                LET rdu  == users_in_render_dist(c.h, client_dict.rd, c.h[user].pos)
                    full == IF admin THEN (rdu \cup The(c.extra)) \cap Users ELSE rdu
                    cs   == admin /\ c.sim.send_client_states_to_admin
                IN  [c EXCEPT !.ret[k] = Resp(TRUE, "state", j, user, admin, full, cs),
                              !.sim.send_client_states_to_admin = IF cs THEN FALSE ELSE @]

RECURSIVE RespondAll(_, _, _, _)
RespondAll(c, L, todo, k) ==
    IF k > Len(todo) \/ c.raised THEN c
    ELSE RespondAll(RespondOne(c, L, k, todo[k]), L, todo, k + 1)

\* line 1776: the entries of user_returns in the order of their positions
RECURSIVE Entries(_, _)
Entries(ret, i) ==
    IF i > Len(ret) THEN <<>>
    ELSE (IF ret[i] # NoResp THEN <<ret[i]>> ELSE <<>>) \o Entries(ret, i + 1)

\* Simulator.update(user_input): the state of the call when it returns or raises
Update(h0, sim0, user_input, world) ==
    LET c1 == ValidateAll(StartCall(h0, sim0, Len(user_input), world), user_input, 1)
        Respond(c2) == RespondAll(c2, user_input, Unanswered(c2.ret, 1), 1)
    IN  Respond(detect_boat_collisions(AdvanceAll(c1, user_input, 1)))


-----------------------------------------------------------------------------
(* ProcManager.main_loop, steps 2 to 4 *)

\* positions of the UPDATE connections of the batch, in order
\* (sorted(client_updates.keys()))
RECURSIVE UpdatePositions(_, _)
UpdatePositions(conns, i) ==
    IF i > Len(conns) THEN <<>>
    ELSE (IF conns[i].cmd = "UPDATE" THEN <<i>> ELSE <<>>) \o UpdatePositions(conns, i + 1)

\* the position of connection i in that list
RankOf(upd, i) == CHOOSE k \in 1..Len(upd) : upd[k] = i

\* step 4: zip(sorted(client_updates.keys()), client_update_returns)
Zip(conns, upd, returns) ==
    [i \in 1..Len(conns) |->
        IF conns[i].cmd # "UPDATE" THEN NoResp
        ELSE IF RankOf(upd, i) <= Len(returns) THEN returns[RankOf(upd, i)] ELSE NoResp]

\* step 2: what parse_client_data makes main_loop send at once
Immediate(h0, sim0, conn) ==
    IF conn.cmd = "JOIN" THEN client_connect([h |-> h0, sim |-> sim0], conn.payload)
    ELSE IF conn.cmd = "UPDATE" THEN NoResp
    ELSE Failure("invalid", 0, "")

NoTrace ==
    [called |-> FALSE, user_input |-> <<>>, from |-> <<>>, before |-> <<>>,
     ret |-> <<>>, returns |-> <<>>, raised |-> FALSE, authed |-> {}, denied |-> {},
     commanded |-> {}, advanced |-> <<>>, failed |-> {}, applied |-> <<>>, given |-> <<>>,
     out |-> <<>>, mid |-> <<>>, after |-> <<>>, log |-> <<>>, world |-> <<>>]

\* what one call of Simulator.update did: its input, the session table before
\* it, and the call's final state; mid: the sessions as their ClientHandler.update
\* left them, after: the sessions at the end of the call, log: the client events
\* each session queued during the call, in order
TraceOf(h0, upd, user_input, c) ==
    [called |-> TRUE, user_input |-> user_input, from |-> upd, before |-> h0,
     ret |-> c.ret, returns |-> Entries(c.ret, 1), raised |-> c.raised,
     authed |-> c.authed, denied |-> c.denied, commanded |-> c.commanded,
     advanced |-> c.advanced, failed |-> c.failed, applied |-> c.applied,
     given |-> [u \in Users |-> IF c.chi[u] = Nothing THEN 0 ELSE The(c.chi[u]).from],
     out |-> c.out, mid |-> c.after, after |-> [u \in Users |-> [c.h[u] EXCEPT !.log = <<>>]],
     log |-> [u \in Users |-> c.h[u].log], world |-> c.world]

-----------------------------------------------------------------------------
(* Initial state: Simulator.__init__ on a simulation file with the sessions *)
(* of UserOrder, each as ClientHandler.new writes it                        *)

StartPos(u) == IF u = ADMIN THEN 0 ELSE 3

\* WindGenerator.default_config: the generator of a simulation file without
\* wind settings (its state is stepped in the wind specification only; what
\* the wind does to the boats of a tick is the tick's world)
StartWind == [speed |-> 0, max_gust |-> 0, direction |-> 270 * DegreeUnits]

NewHandler(u) ==
    [password |-> PasswordOf(u), blocked |-> FALSE, enabled |-> TRUE, paused |-> FALSE,
     globally_paused |-> FALSE, finished |-> FALSE, user_input |-> EmptyInput,
     inputs |-> [n \in {"internal", "client", "autopilot"} |-> Nothing],
     curr_input |-> Nothing, rudder_angle |-> StartRudder, input_force |-> FALSE,
     sheeting_angle |-> StartSheet, sail_angle |-> StartSail, ap_enabled |-> FALSE,
     target |-> "global", pos |-> StartPos(u), angle |-> 0, velocity |-> 0,
     angular_velocity |-> 0,
     hull |-> MaxHull, max_hull |-> MaxHull, sanity_limits_reached |-> FALSE,
     clamped |-> FALSE, timer_running |-> TRUE, timer_total |-> 0, tracer_lst |-> <<>>,
     record |-> Nothing, events |-> <<>>, client_events |-> <<>>,
     client_alerts |-> <<>>, log |-> <<>>]

InitSim ==
    /\ handlers = [u \in Users |-> NewHandler(u)]
    /\ sim \in {[password |-> pw, paused |-> FALSE, send_client_states_to_admin |-> FALSE,
                 wind |-> StartWind] :
                  pw \in {Nothing, Some(SimPassword)}}
    /\ alive = TRUE
    /\ connections = <<>>
    /\ sent = <<>>
    /\ trace = NoTrace

InitQueue ==
    /\ queue = <<>>
    /\ lock = FALSE
    /\ pcMain = "lock"
    /\ pcAccept = "check"
    /\ nextId = 0
    /\ dropped = {}

queueVars == <<queue, lock, pcAccept, nextId, dropped>>
simVars == <<handlers, sim, alive, sent, trace>>

\* the number of entries a session's client_events or client_alerts may hold
\* between two ticks
MaxEvents == 2

\* a tick in which nothing acts on the boats
CalmWorld == [boat |-> [u \in Users |-> CalmBoat], touching |-> {}]

\* steps 2 to 4 of one iteration of main_loop on the batch `connections`, in a
\* tick where the world is one of Worlds
ServeIn(Worlds) ==
    /\ pcMain = "serve"
    /\ \E world \in Worlds :
       \E upd \in {UpdatePositions(connections, 1)} :
       \E user_input \in {[k \in 1..Len(upd) |-> connections[upd[k]].payload]} :
       \E c \in {Update(handlers, sim, user_input, world)} :
       LET now == [i \in 1..Len(connections) |-> Immediate(handlers, sim, connections[i])]
           late == IF c.raised THEN [i \in 1..Len(connections) |-> NoResp]
                   ELSE Zip(connections, upd, Entries(c.ret, 1))
       IN  /\ \A u \in Users : /\ Len(c.h[u].client_events) <= MaxEvents
                               /\ Len(c.h[u].client_alerts) <= MaxEvents
           /\ handlers' = [u \in Users |-> [c.h[u] EXCEPT !.log = <<>>]]
           /\ sim' = c.sim
           /\ alive' = ~c.raised
           /\ sent' = [i \in 1..Len(connections) |->
                         IF connections[i].cmd = "UPDATE" THEN late[i] ELSE now[i]]
           /\ trace' = TraceOf(handlers, upd, user_input, c)
    /\ pcMain' = "loop"
    /\ UNCHANGED <<connections, queueVars>>

Serve == ServeIn({CalmWorld})

\* `while s.running`: the next iteration starts; the iteration's locals are gone
Loop ==
    /\ pcMain = "loop"
    /\ alive
    /\ pcMain' = "lock"
    /\ connections' = <<>>
    /\ sent' = <<>>
    /\ trace' = NoTrace
    /\ UNCHANGED <<handlers, sim, alive, queueVars>>


-----------------------------------------------------------------------------
(* The requests clients send *)

Cred(u) == <<u, PasswordOf(u), SimPassword>>

Rudder(a) == UserInput(TRUE, BoatInput(Some(a), Nothing), NoApInput, Nothing, FALSE)
Sheet(a) == UserInput(TRUE, BoatInput(Nothing, Some(a)), NoApInput, Nothing, FALSE)
ApEnable(b) == UserInput(TRUE, NoBoatInput, ApInput(Some(b), Nothing), Nothing, FALSE)
ApTarget(k) == UserInput(TRUE, NoBoatInput, ApInput(Nothing, Some(k)), Nothing, FALSE)
Pause(b) == UserInput(TRUE, NoBoatInput, NoApInput, Some(b), FALSE)
ResetInput == UserInput(TRUE, NoBoatInput, NoApInput, Nothing, TRUE)
Untyped == UserInput(FALSE, NoBoatInput, NoApInput, Nothing, FALSE)

\* malformed UPDATE payloads
NotADict == [Good(Cred("u1"), EmptyInput) EXCEPT !.dict = FALSE]
NoAuthKey == [Good(Cred("u1"), EmptyInput) EXCEPT !.has_auth = FALSE]
NoRenderDist == [Good(Cred("u1"), EmptyInput) EXCEPT !.has_rd = FALSE]
AuthNotList == [Good(Cred("u1"), EmptyInput) EXCEPT !.auth_list = FALSE, !.auth = <<>>]
AuthTooShort == Good(<<"u1">>, EmptyInput)
AuthTooLong == Good(Cred("u1") \o <<"x">>, EmptyInput)
RenderDistString == [Good(Cred("u1"), EmptyInput) EXCEPT !.rd_type = "str"]
RenderDistBad == [Good(Cred("u1"), EmptyInput) EXCEPT !.rd_type = "bad"]
Malformed ==
    {NotADict, NoAuthKey, NoRenderDist, AuthNotList, AuthTooShort, AuthTooLong,
     RenderDistString, RenderDistBad}

\* credentials: right, wrong password, unknown user, wrong / null / missing
\* simulation password
Credentials ==
    UNION {{Cred(u), <<u, "wrong", SimPassword>>, <<u, PasswordOf(u), "wrong-sim">>,
            <<u, PasswordOf(u), NULL>>, <<u, PasswordOf(u)>>} : u \in Users}
    \cup {<<GHOST, "pw-ghost", SimPassword>>}

AdminUpdate(cmds, extra) ==
    Request("UPDATE", [Good(Cred(ADMIN), EmptyInput) EXCEPT !.cmds = cmds, !.extra = extra,
                                                            !.rd = 1])

\* the messages of the tick specification: well-formed, malformed and
\* unauthenticated requests, valid and invalid input, administrator requests
Requests ==
    {Request("UPDATE", Good(Cred("u1"), ui)) : ui \in {EmptyInput, Rudder(30), Rudder(200)}}
    \cup {Request("UPDATE", Good(Cred(ADMIN), ui)) : ui \in {EmptyInput, Rudder(200)}}
    \cup {Request("UPDATE", Good(<<u, "wrong", SimPassword>>, Rudder(30))) :
            u \in {ADMIN, "u1", GHOST}}
    \cup {Request("UPDATE", d) : d \in Malformed}
    \cup {AdminUpdate(Some(<<Cmd("STATUS", "")>>), Some({"u1"})),
          AdminUpdate(Some(<<Cmd("BOGUS", "")>>), Nothing)}
    \cup {Request("JOIN", Good(Cred("u1"), EmptyInput)),
          Request("JOIN", Good(<<"u1", "wrong", SimPassword>>, EmptyInput)),
          Request("BAD", NotADict)}

\* the messages of the authentication specification: every kind of credentials
\* in a JOIN and in an UPDATE, and the administrator's block commands
AuthRequests ==
    {Request(cmd, Good(a, Rudder(30))) : cmd \in {"JOIN", "UPDATE"}, a \in Credentials}
    \cup {AdminUpdate(Some(<<Cmd(v, u)>>), Nothing) :
            v \in {"USER-BLOCK", "USER-UNBLOCK"}, u \in Users}

\* main_loop takes at most len(client_handlers) connections per tick
BatchLimit == Len(UserOrder)

Batches(R) ==
    UNION {[1..n -> R] : n \in 0..BatchLimit}

\* step 1 of main_loop as one step, with any queue content: the batch of this tick
DrainFrom(R) ==
    /\ pcMain = "lock"
    /\ alive
    /\ \E b \in Batches(R) :
         connections' = [i \in 1..Len(b) |-> Connection(i, b[i])]
    /\ pcMain' = "serve"
    /\ UNCHANGED <<simVars, queueVars>>

Drain == DrainFrom(Requests)
DrainAuth == DrainFrom(AuthRequests)

-----------------------------------------------------------------------------
(* The intake queue: main_loop step 1 and connection_accept_loop *)

\* the number of connections clients open
MaxConn == 3

\* the messages of the queue specification: a well-formed UPDATE of each user
QueueRequests ==
    {Request("UPDATE", Good(Cred(u), EmptyInput)) : u \in Users}

Ids(q) == {q[i].id : i \in 1..Len(q)}

\* waiting_connections[:len(client_handlers)]
TakeBatch(q) == SubSeq(q, 1, Min(BatchLimit, Len(q)))
\* del waiting_connections[:len(client_handlers)]
DeleteBatch(q) == SubSeq(q, Min(BatchLimit, Len(q)) + 1, Len(q))

\* line 2035
Lock ==
    /\ pcMain = "lock"
    /\ alive
    /\ lock' = TRUE
    /\ pcMain' = "copy"
    /\ UNCHANGED <<simVars, connections, queue, pcAccept, nextId, dropped>>

\* line 2036
Copy ==
    /\ pcMain = "copy"
    /\ connections' = TakeBatch(queue)
    /\ pcMain' = "del"
    /\ UNCHANGED <<simVars, queueVars>>

\* line 2037
Del ==
    /\ pcMain = "del"
    /\ queue' = DeleteBatch(queue)
    /\ dropped' = dropped \cup ((Ids(queue) \ Ids(queue')) \ Ids(connections))
    /\ pcMain' = "unlock"
    /\ UNCHANGED <<simVars, connections, lock, pcAccept, nextId>>

\* line 2038
Unlock ==
    /\ pcMain = "unlock"
    /\ lock' = FALSE
    /\ pcMain' = "serve"
    /\ UNCHANGED <<simVars, connections, queue, pcAccept, nextId, dropped>>

\* connection_accept_loop, line 2226: the test of the flag
CheckLock ==
    /\ pcAccept = "check"
    /\ ~lock
    /\ pcAccept' = "accept"
    /\ UNCHANGED <<simVars, connections, queue, lock, pcMain, nextId, dropped>>

\* line 2228: accept() returns a client's connection and it is appended
Accept ==
    /\ pcAccept = "accept"
    /\ nextId < MaxConn
    /\ \E r \in QueueRequests : queue' = Append(queue, Connection(nextId + 1, r))
    /\ nextId' = nextId + 1
    /\ pcAccept' = "check"
    /\ UNCHANGED <<simVars, connections, lock, pcMain, dropped>>

Init == InitSim /\ InitQueue

Next == Drain \/ Serve \/ Loop

Spec == Init /\ [][Next]_vars

NextAuth == DrainAuth \/ Serve \/ Loop

SpecAuth == Init /\ [][NextAuth]_vars

NextQueue == Lock \/ Copy \/ Del \/ Unlock \/ Serve \/ Loop \/ CheckLock \/ Accept

SpecQueue == Init /\ [][NextQueue]_vars

-----------------------------------------------------------------------------
(* The life cycle of the sessions: ticks in which the world acts on the boats *)

\* what a tick does to one boat: nothing, wind that speeds it up and turns it,
\* land under it, the end point under it
Push == BoatWorld(2, 0, 2, 0, 0, 0, FALSE, FALSE)
Aground == BoatWorld(0, 0, 0, 0, 0, 0, TRUE, FALSE)
AtEnd == BoatWorld(0, 0, 0, 0, 0, 0, FALSE, TRUE)

\* the wind acts on u1's boat only (the other boat moves when a collision
\* hands it u1's velocity); the hulls touch only in ticks without land or end
\* point under u1's boat
SessionWorlds ==
    {w \in [boat : {[u \in Users |-> IF u = "u1" THEN b1 ELSE b0] :
                       b1 \in {CalmBoat, Push, Aground, AtEnd}, b0 \in {CalmBoat}},
            touching : {{}, {<<1, 2>>}}] :
        w.touching # {} => w.boat["u1"] \in {CalmBoat, Push}}

\* the requests of a tick: one of the administrator, who may reset or repair
\* u1's boat, then one of u1, who may reset it or switch the autopilot on
SessionBatches ==
    {<<a, Request("UPDATE", Good(Cred("u1"), ui))>> :
       a \in {AdminUpdate(Nothing, Nothing)}
              \cup {AdminUpdate(Some(<<Cmd(v, "u1")>>), Nothing) :
                      v \in {"USER-RESET", "USER-REPAIR"}},
       ui \in {EmptyInput, ResetInput, ApEnable(TRUE)}}

DrainSession ==
    /\ pcMain = "lock"
    /\ alive
    /\ \E b \in SessionBatches :
         connections' = [i \in 1..Len(b) |-> Connection(i, b[i])]
    /\ pcMain' = "serve"
    /\ UNCHANGED <<simVars, queueVars>>

ServeSession == ServeIn(SessionWorlds)

NextSession == DrainSession \/ ServeSession \/ Loop

InitSession == Init /\ sim.password # Nothing

-----------------------------------------------------------------------------
(* The rudder arbiter of u1's boat, driven directly *)

\* the angles given to set_input, in and out of [-90, 90]
RudderAngles == {-200, -90, 0, 30, 90, 200}

\* boat.rudder_input.set_input(name, angle)
RudderSet ==
    \E name \in {RudderPriority[i] : i \in 1..Len(RudderPriority)}, angle \in RudderAngles :
        /\ handlers' = [handlers EXCEPT !["u1"] = set_input(@, name, angle)]
        /\ trace' = [op |-> "set_input", name |-> name, angle |-> angle]
        /\ UNCHANGED <<sim, alive, connections, sent, pcMain, queueVars>>

\* boat.rudder_input.disable_input(name)
RudderDisable ==
    \E name \in {RudderPriority[i] : i \in 1..Len(RudderPriority)} :
        /\ handlers' = [handlers EXCEPT !["u1"] = disable_input(@, name)]
        /\ trace' = [op |-> "disable_input", name |-> name, angle |-> 0]
        /\ UNCHANGED <<sim, alive, connections, sent, pcMain, queueVars>>

NextRudder == RudderSet \/ RudderDisable

InitRudder == Init /\ sim.password # Nothing

SpecRudder == InitRudder /\ [][NextRudder]_vars

-----------------------------------------------------------------------------
(* The render-distance filter of Simulator.update, applied to one request *)

\* the boats are at positions 0..MaxPos, render distances are 0..MaxPos + 1
MaxPos == 4

\* the usernames reported with full state to `user`, who asks with render
\* distance r, in the world h; an administrator also asks for the boats `extra`
FullFor(h, s0, user, extra, r) ==
    RespondOne([StartCall(h, s0, 1, CalmWorld) EXCEPT !.extra = Some(extra)],
               <<[Good(Cred(user), EmptyInput) EXCEPT !.rd = r]>>, 1, 1).ret[1].full

\* one world state and requester, asked with two render distances
RenderTwice ==
    \E user \in Users, r1, r2 \in 0..(MaxPos + 1), extra \in SUBSET {"u1"} :
        /\ trace' = [op |-> "render", user |-> user, r1 |-> r1, r2 |-> r2,
                     full1 |-> FullFor(handlers, sim, user, extra, r1),
                     full2 |-> FullFor(handlers, sim, user, extra, r2)]
        /\ UNCHANGED <<handlers, sim, alive, connections, sent, pcMain, queueVars>>

NextRender == RenderTwice

InitRender ==
    /\ \E pos \in [Users -> 0..MaxPos] :
          handlers = [u \in Users |-> [NewHandler(u) EXCEPT !.pos = pos[u]]]
    /\ sim = [password |-> Some(SimPassword), paused |-> FALSE,
              send_client_states_to_admin |-> FALSE, wind |-> StartWind]
    /\ alive = TRUE
    /\ connections = <<>>
    /\ sent = <<>>
    /\ trace = NoTrace
    /\ InitQueue

SpecRender == InitRender /\ [][NextRender]_vars

-----------------------------------------------------------------------------
(* The sail of u1's boat: Sailboat.update with a sheeting-angle input *)

\* the angles the wind turns the sail by in a half-step (0: no wind)
SailChanges == {-60, -30, 0, 30, 60}
\* valid sheeting angles
SheetingAngles == {0, 30, 60, 90}

\* boat.update(wind, frame_t, user_input) with a sheeting angle in the input,
\* or none
SailTick ==
    \E sheet \in {Nothing} \cup {Some(a) : a \in SheetingAngles}, da1, da2 \in SailChanges :
    \E r \in {SailboatUpdate(handlers["u1"], BoatInput(Nothing, sheet),
                              BoatWorld(0, 0, 0, 0, da1, da2, FALSE, FALSE))} :
        /\ handlers' = [handlers EXCEPT !["u1"] = r.s]
        /\ trace' = [op |-> "sail", sheet |-> sheet, da1 |-> da1, da2 |-> da2,
                     raised |-> r.raised, before |-> handlers["u1"].sail_angle]
        /\ UNCHANGED <<sim, alive, connections, sent, pcMain, queueVars>>

NextSail == SailTick

\* sail.update(sim_t, wind) alone: one free-swinging step of u1's sail within
\* the travel limits of its sheeting angle
SailStep ==
    \E change \in SailChanges \cup {-10, 10} :
    \E travel \in {<<270 - handlers["u1"].sheeting_angle, 270 + handlers["u1"].sheeting_angle>>} :
    \E r \in {_update(handlers["u1"].sail_angle, FALSE, change, travel)} :
        /\ handlers' = [handlers EXCEPT !["u1"] = SailUpdate(@, change)]
        /\ trace' = [op |-> "_update", before |-> handlers["u1"].sail_angle,
                     change |-> change, travel |-> travel, ret |-> r]
        /\ UNCHANGED <<sim, alive, connections, sent, pcMain, queueVars>>

NextSwing == SailTick \/ SailStep

SpecSwing == InitRudder /\ [][NextSwing]_vars

SpecSail == InitRudder /\ [][NextSail]_vars

-----------------------------------------------------------------------------
(* Ticks with valid and invalid input of u1 *)

\* inputs with a valid and an invalid part: a valid rudder angle with a
\* sheeting angle out of range, the autopilot switched on with a target that is
\* no 2-item list
RudderBadSheet == UserInput(TRUE, BoatInput(Some(60), Some(200)), NoApInput, Nothing, FALSE)
ApOnBadTarget == UserInput(TRUE, NoBoatInput, ApInput(Some(TRUE), Some("badlen")), Nothing, FALSE)

InputRequests ==
    {Request("UPDATE", Good(Cred("u1"), ui)) :
        ui \in {EmptyInput, Rudder(30), Rudder(200), Sheet(30), RudderBadSheet, ApOnBadTarget}}

DrainInput == DrainFrom(InputRequests)

NextInput == DrainInput \/ Serve \/ Loop

SpecInput == InitSession /\ [][NextInput]_vars

-----------------------------------------------------------------------------
(* Ticks with administrative commands *)

AdminRequests ==
    {AdminUpdate(Some(<<Cmd(v, "u1")>>), Nothing) :
        v \in {"TOGGLE-PAUSE", "USER-RESET", "STATUS"}}
    \cup {Request("UPDATE", Good(Cred("u1"), EmptyInput)),
          Request("UPDATE", Good(<<"u1", "wrong", SimPassword>>, EmptyInput))}

DrainAdmin == DrainFrom(AdminRequests)

NextAdmin == DrainAdmin \/ Serve \/ Loop

SpecAdmin == InitSession /\ [][NextAdmin]_vars

-----------------------------------------------------------------------------
(* Sessions that are paused, finished, wrecked and reset *)

PauseWorlds ==
    {[boat |-> [u \in Users |-> IF u = "u1" THEN b1 ELSE CalmBoat], touching |-> {}] :
        b1 \in {CalmBoat, Push, Aground, AtEnd}}

\* the requests of a tick: the administrator may toggle the global pause, u1
\* may pause and unpause its session
PauseBatches ==
    {<<a, Request("UPDATE", Good(Cred("u1"), ui))>> :
       a \in {AdminUpdate(Nothing, Nothing), AdminUpdate(Some(<<Cmd("TOGGLE-PAUSE", "")>>), Nothing)},
       ui \in {EmptyInput, Pause(TRUE), Pause(FALSE)}}

DrainPause ==
    /\ pcMain = "lock"
    /\ alive
    /\ \E b \in PauseBatches :
         connections' = [i \in 1..Len(b) |-> Connection(i, b[i])]
    /\ pcMain' = "serve"
    /\ UNCHANGED <<simVars, queueVars>>

ServePause == ServeIn(PauseWorlds)

\* ProcManager.parse_admin_command(['USER-RESET', user]) between two ticks
UserReset ==
    /\ pcMain = "lock"
    /\ alive
    /\ \E user \in {"u1"} :
       \E r \in {parse_admin_command(StartCall(handlers, sim, 0, CalmWorld),
                                      Cmd("USER-RESET", user))} :
          /\ Len(r.c.h[user].client_events) <= MaxEvents
          /\ handlers' = [r.c.h EXCEPT ![user].log = <<>>]
          /\ trace' = [op |-> "reset", user |-> user, before |-> handlers[user],
                       after |-> handlers'[user]]
    /\ UNCHANGED <<sim, alive, connections, sent, pcMain, queueVars>>

NextReset == DrainPause \/ ServePause \/ Loop \/ UserReset

SpecReset == InitSession /\ [][NextReset]_vars

-----------------------------------------------------------------------------
(* Sessions whose client is connected, absent or sends invalid input *)

\* the requests of a tick: one of the administrator, who may reset u1's boat,
\* and at most one of u1, with valid input or with input that is no dict
EventBatches ==
    {<<a>> \o b :
       a \in {AdminUpdate(Nothing, Nothing), AdminUpdate(Some(<<Cmd("USER-RESET", "u1")>>), Nothing)},
       b \in {<<>>} \cup {<<Request("UPDATE", Good(Cred("u1"), ui))>> :
                              ui \in {EmptyInput, Untyped}}}

DrainEvents ==
    /\ pcMain = "lock"
    /\ alive
    /\ \E b \in EventBatches :
         connections' = [i \in 1..Len(b) |-> Connection(i, b[i])]
    /\ pcMain' = "serve"
    /\ UNCHANGED <<simVars, queueVars>>

\* the hulls touch only in ticks without wind, land or end point
EventWorlds == {w \in SessionWorlds : w.touching # {} => w.boat["u1"] = CalmBoat}

ServeEvents == ServeIn(EventWorlds)

NextEvents == DrainEvents \/ ServeEvents \/ Loop

SpecEvents == InitSession /\ [][NextEvents]_vars

-----------------------------------------------------------------------------
(* Sessions that are paused, reset, finished and wrecked on land *)

\* the requests of a tick: the administrator may toggle the global pause,
\* reset u1's session or set the time ratio, u1 may pause or unpause its
\* session
TimerBatches ==
    {<<a, Request("UPDATE", Good(Cred("u1"), ui))>> :
       a \in {AdminUpdate(Nothing, Nothing)}
              \cup {AdminUpdate(Some(<<Cmd(v, "u1")>>), Nothing) :
                      v \in {"TOGGLE-PAUSE", "USER-RESET", "SET-TIME-CONST"}},
       ui \in {EmptyInput, Pause(TRUE), Pause(FALSE)}}

DrainTimer ==
    /\ pcMain = "lock"
    /\ alive
    /\ \E b \in TimerBatches :
         connections' = [i \in 1..Len(b) |-> Connection(i, b[i])]
    /\ pcMain' = "serve"
    /\ UNCHANGED <<simVars, queueVars>>

NextTimer == DrainTimer \/ ServePause \/ Loop

SpecTimer == InitSession /\ [][NextTimer]_vars

-----------------------------------------------------------------------------
(* Sessions with the autopilot switched on that are wrecked on land *)

\* the requests of a tick: one of the administrator, who may reset u1's boat,
\* and at most one of u1, who may switch the autopilot on
WreckBatches ==
    {<<a>> \o b :
       a \in {AdminUpdate(Nothing, Nothing), AdminUpdate(Some(<<Cmd("USER-RESET", "u1")>>), Nothing)},
       b \in {<<>>} \cup {<<Request("UPDATE", Good(Cred("u1"), ui))>> :
                              ui \in {EmptyInput, ApEnable(TRUE)}}}

DrainWreck ==
    /\ pcMain = "lock"
    /\ alive
    /\ \E b \in WreckBatches :
         connections' = [i \in 1..Len(b) |-> Connection(i, b[i])]
    /\ pcMain' = "serve"
    /\ UNCHANGED <<simVars, queueVars>>

NextWreck == DrainWreck \/ ServePause \/ Loop

SpecWreck == InitSession /\ [][NextWreck]_vars

-----------------------------------------------------------------------------
(* The motion of u1's boat in Sailboat.update *)

\* frame times: their quarters are whole, so that the half-steps and the
\* averages are exact
FrameTimes == {0, 4}

\* the physics of one boat.update(wind, frame_t, {}) under a constant force
\* and torque, none included, in which the velocities stay below the sanity
\* limits
MotionStep ==
    /\ trace = NoTrace
    /\ \E frame_t \in FrameTimes, acc \in {-1, 0, 1}, alpha \in {-1, 0, 1} :
       \E after \in {Motion([handlers["u1"] EXCEPT !.clamped = FALSE], frame_t, acc, alpha)} :
          /\ ~after.clamped
          /\ handlers' = [handlers EXCEPT !["u1"] = after]
          /\ trace' = [op |-> "motion", frame_t |-> frame_t, acc |-> acc, alpha |-> alpha,
                       before |-> handlers["u1"]]
    /\ UNCHANGED <<sim, alive, connections, sent, pcMain, queueVars>>

NextMotion == MotionStep

\* u1's boat at any of some positions and headings, at rest or under way
InitMotion ==
    /\ \E pos \in {0, 3}, angle \in {0, 180, 350}, velocity \in {-2, 0, 1, 2},
          angular_velocity \in {-2, 0, 1, 2} :
          handlers = [u \in Users |->
                        IF u = "u1"
                        THEN [NewHandler(u) EXCEPT !.pos = pos, !.angle = angle,
                                                   !.velocity = velocity,
                                                   !.angular_velocity = angular_velocity]
                        ELSE NewHandler(u)]
    /\ sim = [password |-> Some(SimPassword), paused |-> FALSE,
              send_client_states_to_admin |-> FALSE, wind |-> StartWind]
    /\ alive = TRUE
    /\ connections = <<>>
    /\ sent = <<>>
    /\ trace = NoTrace
    /\ InitQueue

SpecMotion == InitMotion /\ [][NextMotion]_vars

-----------------------------------------------------------------------------
(* What Autopilot.update returns *)

\* extras.diff_between_angles(a, b)
diff_between_angles(a, b) == (((b - a) + 180) % 360) - 180

\* the boat and its surroundings as Autopilot.update reads them, angles in
\* degrees: the direction of the global wind, the side the wind comes from on
\* the boat (boat.wind.x), the bearing and distance of the target, the boat's
\* heading, the direction and length of its velocity, its forward speed
\* (local_velocity.y) and the boat's upwind settings
Course(wa, wx, ta, tl, a, va, vl, ly, uw, ul) ==
    [wind_angle |-> wa, wind_x |-> wx, target_angle |-> ta, target_length |-> tl,
     angle |-> a, velocity_angle |-> va, velocity_length |-> vl, local_y |-> ly,
     upwind_max_wind_angle |-> uw, upwind_max_total_leeway |-> ul]

\* Autopilot.update lines 784-815: the returned dict without 'target-pos'.
\* The distances are multiples of the speeds, so the division is exact
AutopilotReturn(g) ==
    LET tach_wind_sign == sign(g.wind_x)
        best_tacking_angle ==
            ((g.wind_angle + 180) - (g.upwind_max_wind_angle * tach_wind_sign)) % 360
        tacking ==
            Abs(diff_between_angles(g.wind_angle + 180, g.target_angle))
                < g.upwind_max_total_leeway
        aim == IF tacking THEN best_tacking_angle ELSE g.target_angle
        travel_time0 == IF g.velocity_length = 0 THEN Nothing
                        ELSE Some(g.target_length \div g.velocity_length)
        travel_time1 == IF tacking THEN Some(0) ELSE travel_time0
        adj_leeway == /\ Abs(diff_between_angles(g.angle, aim)) < 45
                      /\ Abs(diff_between_angles(g.velocity_angle, aim)) < 45
                      /\ g.local_y > 0
    IN  [on_course |-> adj_leeway, tacking |-> tacking, aim |-> aim,
         travel_time |-> IF adj_leeway THEN travel_time1 ELSE Nothing]

\* the courses of the check: wind from ahead, abeam or astern of the target,
\* the boat at rest or under way in any of eight directions
Courses ==
    {Course(wa, wx, ta, 4, a, va, vl, ly, 45, 50) :
        wa \in {0, 180}, wx \in {-1, 1}, ta \in {-90, 0, 90, 180},
        a \in {0, 45, 135, 225, 315}, va \in {0, 45, 135, 225, 315},
        vl \in {0, 2}, ly \in {-1, 0, 1}}

\* Autopilot.update(sim_t, {}) of u1's boat on some course
AutopilotStep ==
    \E g \in Courses :
        /\ g.velocity_length = 0 <=> g.local_y = 0
        /\ g.velocity_length = 0 => g.velocity_angle = 0
        /\ handlers' = [handlers EXCEPT !["u1"] = AutopilotUpdate(@, NoApInput).s]
        /\ trace' = [op |-> "autopilot", course |-> g, ret |-> AutopilotReturn(g)]
        /\ UNCHANGED <<sim, alive, connections, sent, pcMain, queueVars>>

NextAutopilot == AutopilotStep

SpecAutopilot == InitRudder /\ [][NextAutopilot]_vars

-----------------------------------------------------------------------------
(* The wind generator, stepped with any draws and step durations *)

\* the largest max-gust of a wind configuration
MaxGust == 1

\* the products (draw / 100) * t: none, the smallest, a degree, 45 degrees
WindSteps == {-45 * DegreeUnits, -DegreeUnits, -1, 0, 1, DegreeUnits, 45 * DegreeUnits}

\* Simulator.update line 1688
WindStep ==
    \E ds \in {-1, 0, 1}, dd \in WindSteps :
        /\ sim' = [sim EXCEPT !.wind = get_vector(@, ds, dd)]
        /\ UNCHANGED <<handlers, alive, connections, sent, trace, pcMain, queueVars>>

NextWind == WindStep

\* a wind configuration with its speed and direction within the bounds
InitWind ==
    /\ handlers = [u \in Users |-> NewHandler(u)]
    /\ \E g \in 0..MaxGust, sp \in 0..MaxGust, dir \in {0, 270} :
          /\ sp <= g
          /\ sim = [password |-> Some(SimPassword), paused |-> FALSE,
                    send_client_states_to_admin |-> FALSE,
                    wind |-> [speed |-> sp, max_gust |-> g, direction |-> dir * DegreeUnits]]
    /\ alive = TRUE
    /\ connections = <<>>
    /\ sent = <<>>
    /\ trace = NoTrace
    /\ InitQueue

SpecWind == InitWind /\ [][NextWind]_vars

SpecSession == InitSession /\ [][NextSession]_vars

-----------------------------------------------------------------------------
(* Claims about Simulator.update and the responses main_loop sends *)

\* the positions of the batch given to the last Simulator.update call
Positions == 1..Len(trace.user_input)
\* the update call of this tick has been made and returned
Returned == trace.called /\ ~trace.raised
\* what main_loop sent on the connection of the request at position k
SentTo(k) == sent[trace.from[k]]
\* response r is the one Simulator.update builds for the request at position k
BuiltFor(r, k) ==
    \/ r.kind \in {"format", "auth", "admin-error", "state"} /\ r.built_for = k
    \/ /\ r.kind = "session-error"
       /\ k \in trace.authed
       /\ trace.user_input[k].auth[1] = r.user

\* C1: the list Simulator.update returns has one element per request, element i
\* is the response built for request i, and main_loop sends it on request i's
\* connection, also when some requests of the batch fail validation or
\* authentication while others succeed.
C1_ResponsesAligned ==
    Returned =>
        /\ Len(trace.returns) = Len(trace.user_input)
        /\ \A k \in Positions :
             k <= Len(trace.returns) => BuiltFor(trace.returns[k], k) /\ SentTo(k) = trace.returns[k]

\* C2: a request whose credentials fail authentication is answered with
\* [false, error]: its connection never receives a success response with world
\* state, and its user-input is given to no session.
C2_AuthFailureRejected ==
    Returned =>
        \A k \in trace.denied :
            /\ SentTo(k) # NoResp
            /\ ~SentTo(k).ok
            /\ \A u \in Users : trace.given[u] # k

\* C3: when a session's update fails in a tick, the tick still completes, every
\* session is advanced, the error goes only to the requester that controls the
\* failing session, and every other requester gets its own success response.
C3_SessionFailureIsolated ==
    (trace.called /\ trace.failed # {}) =>
        /\ ~trace.raised
        /\ trace.advanced = UserOrder
        /\ \A k \in Positions :
             /\ SentTo(k).kind = "session-error" =>
                    k \in trace.authed /\ trace.user_input[k].auth[1] = SentTo(k).user
             /\ (k \in trace.authed /\ trace.user_input[k].auth[1] \notin trace.failed
                   /\ k \notin trace.commanded) =>
                    SentTo(k).ok /\ SentTo(k).kind = "state" /\ SentTo(k).built_for = k

\* the malformed payloads of C4: not a dict, 'auth' or 'render-dist' missing,
\* or 'auth' not a list of the shape [username, password, simPassword]
MalformedPayload(d) ==
    ~d.dict \/ ~d.has_auth \/ ~d.has_rd \/ ~d.auth_list \/ Len(d.auth) # 3

\* C4: a malformed UPDATE payload is rejected with an error sent to its sender
\* only, changes no simulation state, and the tick still runs and answers every
\* other request of the batch.
C4_MalformedRejected ==
    trace.called =>
        \A k \in Positions :
            MalformedPayload(trace.user_input[k]) =>
                /\ ~trace.raised
                /\ ~SentTo(k).ok /\ SentTo(k).kind = "format" /\ SentTo(k).built_for = k
                /\ \A u \in Users : trace.given[u] # k
                /\ k \notin trace.commanded
                /\ trace.advanced = UserOrder
                /\ \A j \in Positions : SentTo(j) # NoResp

\* C5: in every call of Simulator.update every registered session is advanced
\* exactly once, in the insertion order of the session table, whether its
\* controller sent zero, one or several requests.
C5_EverySessionAdvancedOnce ==
    trace.called => trace.advanced = UserOrder

\* C6: in a tick in which a session's controller is absent the session is
\* advanced with empty input: the autopilot and the boat are given no rudder,
\* sheeting-angle, autopilot-enable or autopilot-target value of an earlier request.
C6_AbsentMeansEmptyInput ==
    trace.called =>
        \A u \in Users :
            (trace.given[u] = 0 /\ trace.applied[u] # Nothing) =>
                /\ The(trace.applied[u]).autopilot = NoApInput
                /\ The(trace.applied[u]).boat \subseteq {NoBoatInput}

\* C7: no tick processes two UPDATE requests authenticated as the same
\* username: the batch main_loop drains from the intake queue holds at most one
\* request per session.
C7_OneRequestPerSession ==
    trace.called =>
        \A i, j \in trace.authed :
            i # j => trace.user_input[i].auth[1] # trace.user_input[j].auth[1]

\* C8: the accept thread appends nothing to the intake queue between main_loop's
\* copy of the batch and its deletion from the queue, and no accepted connection
\* leaves the queue without being in a tick's batch.
C8_DrainAtomic ==
    /\ pcMain = "del" => connections = TakeBatch(queue)
    /\ dropped = {}

\* the request d presents the username and the password of session u
PresentsCredentialsOf(d, u) ==
    Len(d.auth) >= 2 /\ d.auth[1] = u /\ d.auth[2] = PasswordOf(u)
\* an UPDATE of the batch carries the command USER-UNBLOCK u
UnblockedInTick(u) ==
    \E k \in Positions :
        /\ trace.user_input[k].cmds # Nothing
        /\ \E n \in 1..Len(The(trace.user_input[k].cmds)) :
             The(trace.user_input[k].cmds)[n] = Cmd("USER-UNBLOCK", u)

\* C9: while session u is blocked (blocked when the tick starts, no USER-UNBLOCK u
\* in the tick), authenticate_client refuses every request that presents u's
\* correct credentials, for every u including the administrator: a JOIN is
\* answered with the authentication error, and an UPDATE is recorded as an
\* authentication failure, its user-input is given to no session and its
\* administrative commands are not run.
C9_BlockedCannotAuthenticate ==
    trace.called =>
        \A u \in Users :
            (trace.before[u].blocked /\ ~UnblockedInTick(u)) =>
                /\ \A i \in 1..Len(connections) :
                     (connections[i].cmd = "JOIN"
                        /\ PresentsCredentialsOf(connections[i].payload, u)) =>
                         ~sent[i].ok /\ sent[i].kind \in {"auth", "invalid"}
                /\ \A k \in Positions :
                     PresentsCredentialsOf(trace.user_input[k], u) =>
                         /\ k \in trace.denied
                         /\ trace.given[u] # k
                         /\ k \notin trace.commanded

\* the blocked administrator's JOIN and UPDATE, both with its correct
\* credentials, are refused in one tick
C9_Witness ==
    /\ trace.called
    /\ trace.before[ADMIN].blocked
    /\ ~UnblockedInTick(ADMIN)
    /\ \E i \in 1..Len(connections) :
         /\ connections[i].cmd = "JOIN"
         /\ connections[i].payload.auth = Cred(ADMIN)
         /\ sent[i].kind = "auth"
    /\ \E k \in trace.denied : trace.user_input[k].auth = Cred(ADMIN)

\* C10: with a simulation password configured, a JOIN or an UPDATE authenticates
\* only if the third item of its auth list equals the configured password.
C10_SimPasswordRequired ==
    (trace.called /\ sim.password # Nothing) =>
        /\ \A k \in trace.authed :
             /\ Len(trace.user_input[k].auth) = 3
             /\ trace.user_input[k].auth[3] = The(sim.password)
        /\ \A i \in 1..Len(connections) :
             (connections[i].cmd = "JOIN" /\ sent[i].ok) =>
                 connections[i].payload.auth[3] = The(sim.password)

\* C11: administrative commands are executed only from a request authenticated
\* as the administrator, and a response that carries the administrator's extras
\* (client-states, the extra render-distance usernames) is the one delivered for
\* the administrator's own authenticated request, built from that request.
C11_AdminPrivilegesOnlyForAdmin ==
    /\ trace.called =>
         \A k \in trace.commanded :
             k \in trace.authed /\ trace.user_input[k].auth[1] = ADMIN
    /\ Returned =>
         \A k \in Positions :
             (SentTo(k).kind = "state" /\ (SentTo(k).admin \/ SentTo(k).client_states)) =>
                 /\ k \in trace.authed
                 /\ trace.user_input[k].auth[1] = ADMIN
                 /\ SentTo(k).built_for = k
                 /\ SentTo(k).user = ADMIN

-----------------------------------------------------------------------------
(* Claims about the life cycle of a session *)

\* the positions in the tick's log of u at which `name` was queued
Logged(u, name) == {j \in 1..Len(trace.log[u]) : trace.log[u][j].name = name}

\* C12: finish detection is idempotent.  In every tick and for every session:
\* a 'finished' event is queued only for a session that is not finished (it
\* was not finished before the tick, or was reset earlier in the tick, and no
\* other 'finished' event was queued since); the session is finished after
\* the tick exactly if it finished in the tick after its last reset, or was
\* finished before and was not reset.
C12_FinishIdempotent ==
    Returned =>
      \A u \in Users :
        LET resets == Logged(u, "reset")
            finishes == Logged(u, "finished")
        IN  /\ \A j \in finishes :
                  /\ trace.before[u].finished => \E k \in resets : k < j
                  /\ \A i \in finishes : i < j => \E k \in resets : i < k /\ k < j
            /\ trace.after[u].finished <=>
                  \/ \E j \in finishes : \A k \in resets : k < j
                  \/ resets = {} /\ trace.before[u].finished

\* a finished, enabled boat is on the end point for another tick without a reset
C12_Witness ==
    /\ Returned
    /\ trace.before["u1"].finished
    /\ trace.before["u1"].enabled
    /\ trace.world.boat["u1"].at_end
    /\ trace.log["u1"] = <<>>
    /\ trace.after["u1"].finished

\* C13: a shipwrecked session takes no damage.  In every tick and for every
\* session: a 'collision' event is queued only for a session that is enabled
\* (it was enabled before the tick or was reset earlier in the tick, and was not
\* shipwrecked since); a session that was disabled before the tick and is not
\* reset in it keeps its hull durability and stays disabled; a session
\* shipwrecked in the tick and not reset afterwards ends it with durability 0.
C13_NoDamageWhileShipwrecked ==
    Returned =>
      \A u \in Users :
        LET resets == Logged(u, "reset")
            wrecks == Logged(u, "shipwreck")
        IN  /\ \A j \in Logged(u, "collision") :
                  /\ ~trace.before[u].enabled => \E k \in resets : k < j
                  /\ \A i \in wrecks : i < j => \E k \in resets : i < k /\ k < j
            /\ (~trace.before[u].enabled /\ resets = {}) =>
                  /\ trace.after[u].hull = trace.before[u].hull
                  /\ ~trace.after[u].enabled
            /\ (\E i \in wrecks : \A k \in resets : k < i) => trace.after[u].hull = 0

\* a shipwrecked boat that is not reset is hit by an enabled boat moving
\* relative to it, in a tick in which the administrator repairs it
C13_Witness ==
    /\ Returned
    /\ ~trace.before["u1"].enabled
    /\ trace.log["u1"] = <<>>
    /\ trace.world.touching # {}
    /\ The(trace.mid[ADMIN]).enabled
    /\ The(trace.mid[ADMIN]).velocity # The(trace.mid["u1"]).velocity
    /\ \E k \in trace.commanded :
          The(trace.user_input[k].cmds) = <<Cmd("USER-REPAIR", "u1")>>

\* the sum of the values of the 'collision' events among the first j entries
RECURSIVE TotalDamage(_, _)
TotalDamage(log, j) ==
    IF j = 0 THEN 0
    ELSE TotalDamage(log, j - 1) + (IF log[j].name = "collision" THEN log[j].value ELSE 0)

\* an executed command list of the tick repairs u
Repaired(u) ==
    \E k \in trace.commanded :
        \E n \in 1..Len(The(trace.user_input[k].cmds)) :
            The(trace.user_input[k].cmds)[n] = Cmd("USER-REPAIR", u)

\* C14: collisions and shipwreck.  In every tick and for every (damageable)
\* session, with m the session as its own update left it:
\*  - a 'collision' event of a map collision that leaves the boat enabled has
\*    the value |velocity| * mass, one of a boat-boat collision the value
\*    |relative velocity| * mass (hundredths of a point);
\*  - the hull durability after the tick is the durability the session had
\*    when the tick's resets and repairs were done, less the tick's damage, and
\*    at least 0;
\*  - a 'shipwreck' event directly follows a 'collision' event, two of them
\*    are separated by a reset, and one is queued after the last reset exactly
\*    if the session was enabled and its durability is 0 after the tick;
\*  - in that case the session is disabled, does not move or turn, and its
\*    autopilot and timer are off; a session with durability left is enabled.
C14_CollisionDamageAndShipwreck ==
    Returned =>
      \A u \in Users :
        LET log == trace.log[u]
            m == The(trace.mid[u])
            resets == Logged(u, "reset")
            wrecks == Logged(u, "shipwreck")
            live == trace.before[u].enabled \/ resets # {}
            base == IF resets # {} \/ (Repaired(u) /\ trace.before[u].enabled)
                    THEN trace.before[u].max_hull ELSE trace.before[u].hull
            after == trace.after[u]
        IN  /\ \A j \in Logged(u, "collision") :
                  /\ (j <= Len(m.log) /\ m.enabled) => log[j].value = Abs(m.velocity) * Mass
                  /\ j > Len(m.log) =>
                        \E o \in Users \ {u} :
                            log[j].value = Abs(m.velocity - The(trace.mid[o]).velocity) * Mass
            /\ after.hull = Max(base - TotalDamage(log, Len(log)), 0)
            /\ \A i \in wrecks :
                  /\ i > 1 /\ log[i - 1].name = "collision"
                  /\ \A j \in wrecks : i < j => \E k \in resets : i < k /\ k < j
            /\ (\E i \in wrecks : \A k \in resets : k < i) <=> (live /\ after.hull = 0)
            /\ (live /\ after.hull = 0) =>
                  /\ ~after.enabled
                  /\ after.velocity = 0 /\ after.angular_velocity = 0
                  /\ ~after.ap_enabled
                  /\ ~after.timer_running
            /\ after.hull > 0 => after.enabled

\* a moving, turning boat under autopilot, already damaged, is shipwrecked by
\* a collision
C14_Witness ==
    /\ Returned
    /\ Logged("u1", "shipwreck") # {}
    /\ trace.before["u1"].hull < MaxHull
    /\ The(trace.mid["u1"]).ap_enabled \/ trace.before["u1"].ap_enabled
    /\ trace.before["u1"].velocity # 0
    /\ trace.before["u1"].angular_velocity # 0
    /\ trace.before["u1"].timer_running

\* the 'collision' events queued for u by detect_boat_collisions in the tick
BoatHits(u) ==
    {j \in Logged(u, "collision") : j > Len(The(trace.mid[u]).log)}

\* the hulls of two enabled boats touch after the sessions are advanced
BothCollide ==
    /\ Returned
    /\ trace.world.touching # {}
    /\ \A u \in Users : The(trace.mid[u]).enabled

\* the damage v * mass of the tick's boat-boat collision, in hundredths
HitDamage ==
    Abs(The(trace.mid[UserOrder[1]]).velocity - The(trace.mid[UserOrder[2]]).velocity) * Mass

\* C17 as stated: when two enabled boats of equal mass collide, each session
\* gets one 'collision' event of value v * mass and loses exactly that much
\* hull durability.
C17_SymmetricDamage ==
    BothCollide =>
      \A u \in Users :
        /\ \E j \in BoatHits(u) : BoatHits(u) = {j} /\ trace.log[u][j].value = HitDamage
        /\ The(trace.mid[u]).hull - trace.after[u].hull = HitDamage

\* C17, amended: each session gets one 'collision' event of the same value
\* v * mass, and loses that much hull durability or all it has left.
C17_SymmetricDamageToZero ==
    BothCollide =>
      \A u \in Users :
        /\ \E j \in BoatHits(u) : BoatHits(u) = {j} /\ trace.log[u][j].value = HitDamage
        /\ trace.after[u].hull = Max(The(trace.mid[u]).hull - HitDamage, 0)

\* two enabled boats collide with a damage that one of them can take and the
\* other cannot
C17_Witness ==
    /\ BothCollide
    /\ \E u, o \in Users :
          /\ The(trace.mid[u]).hull < HitDamage
          /\ The(trace.mid[o]).hull >= HitDamage
          /\ trace.after[u].hull = 0

-----------------------------------------------------------------------------
(* Claims about the rudder arbiter *)

\* C15: after every set_input and disable_input on the arbiter of a boat:
\* every set input is within [-90, 90] (set_input stored the angle it was given,
\* clamped); if `internal` is set it is the active source, else if `client` is
\* set it is, else if `autopilot` is set it is; the rudder is forced to the
\* active source's angle + 270; with no source set there is no active source
\* and the rudder swings free.
C15_RudderPriority ==
    LET s == handlers["u1"]
        Active(name) ==
            /\ s.curr_input = Some(name)
            /\ s.input_force
            /\ s.rudder_angle = The(s.inputs[name]) + 270
    IN  /\ \A n \in DOMAIN s.inputs :
              s.inputs[n] # Nothing => The(s.inputs[n]) >= -90 /\ The(s.inputs[n]) <= 90
        /\ ("op" \in DOMAIN trace /\ trace.op = "set_input") =>
              s.inputs[trace.name] =
                  Some(IF trace.angle > 90 THEN 90
                       ELSE IF trace.angle < -90 THEN -90 ELSE trace.angle)
        /\ ("op" \in DOMAIN trace /\ trace.op = "disable_input") =>
              s.inputs[trace.name] = Nothing
        /\ IF s.inputs["internal"] # Nothing THEN Active("internal")
           ELSE IF s.inputs["client"] # Nothing THEN Active("client")
           ELSE IF s.inputs["autopilot"] # Nothing THEN Active("autopilot")
           ELSE s.curr_input = Nothing /\ ~s.input_force

\* the autopilot sets an angle while the client holds another one: the client's
\* stays in force
C15_Witness ==
    /\ "op" \in DOMAIN trace
    /\ trace.op = "set_input" /\ trace.name = "autopilot" /\ trace.angle = 200
    /\ handlers["u1"].inputs["internal"] = Nothing
    /\ handlers["u1"].inputs["client"] = Some(30)
    /\ handlers["u1"].inputs["autopilot"] = Some(90)
    /\ handlers["u1"].rudder_angle = 300

-----------------------------------------------------------------------------
(* Claims about the render-distance filter *)

\* C16: for one world state and one requester, the sessions reported with full
\* state for a render distance are also reported with full state for every
\* render distance that is at least as large.
C16_RenderDistMonotonic ==
    ("op" \in DOMAIN trace /\ trace.op = "render" /\ trace.r1 <= trace.r2) =>
        trace.full1 \subseteq trace.full2

\* a larger render distance brings a boat into a user's response that the
\* smaller one left out, and keeps the one that was in
C16_Witness ==
    /\ "op" \in DOMAIN trace
    /\ trace.op = "render" /\ trace.user = "u1" /\ trace.r1 < trace.r2
    /\ trace.full1 = {"u1"}
    /\ trace.full2 = Users

-----------------------------------------------------------------------------
(* Claims about Sailboat.update *)

\* C18: after Sailboat.update with a valid sheeting-angle input s, the sail's
\* sheeting angle is s and the sail's angle (as an angle: 0 is 360) lies within
\* [270 - s, 270 + s], whatever the sail's angle and the wind were before.
C18_SailWithinSheet ==
    ("op" \in DOMAIN trace /\ trace.op = "sail" /\ trace.sheet # Nothing /\ ~trace.raised) =>
        LET s == The(trace.sheet)
            angle == handlers["u1"].sail_angle
        IN  /\ handlers["u1"].sheeting_angle = s
            /\ \E turn \in {0, 360} :
                  270 - s <= angle + turn /\ angle + turn <= 270 + s

-----------------------------------------------------------------------------
(* Claims about the wind generator *)

\* C19: after any number of steps of the wind generator, the wind speed is
\* within [0, max-gust] and the wind direction is within [0, 360).
C19_WindWithinBounds ==
    /\ 0 <= sim.wind.speed /\ sim.wind.speed <= sim.wind.max_gust
    /\ 0 <= sim.wind.direction /\ sim.wind.direction < 360 * DegreeUnits

-----------------------------------------------------------------------------
(* Claims about the sanity limits *)

\* the alerts ClientHandler.update of u queued or handed out in the tick
AlertsOf(u) ==
    LET handed == IF trace.out[u] # Nothing /\ The(trace.out[u]).alerts # Nothing
                  THEN The(The(trace.out[u]).alerts) ELSE <<>>
        kept == The(trace.mid[u]).client_alerts
    IN  {handed[i] : i \in 1..Len(handed)} \cup {kept[i] : i \in 1..Len(kept)}

\* C20: whenever a half-step of Sailboat.update zeroes the velocity or the
\* angular velocity of a session's boat because it reached its sanity limit,
\* the session queues a 'sanity limits reached' alert in the same tick.
C20_SanityClampAlerted ==
    Returned =>
      \A u \in Users :
        (The(trace.applied[u]).boat # Nothing /\ The(trace.mid[u]).clamped) =>
            "sanity limits reached" \in AlertsOf(u)

-----------------------------------------------------------------------------
(* Claims about invalid input and administrative commands *)

\* the session of u as a tick with an empty input of its client would leave it
AsWithoutInput(u) ==
    ClientHandlerUpdate(trace.before[u], EmptyInput, TRUE, CalmBoat).s

\* C21: when the input a client sends in a tick is rejected (the session's
\* update reports an error), no part of it takes effect: the rudder arbiter's
\* inputs, the sail's sheeting angle and the autopilot's target and enabled
\* flag are after the tick what they would be had the client sent an empty
\* input (or, at the least, what they were before the tick).
C21_RejectedInputHasNoEffect ==
    Returned =>
      \A u \in Users :
        (u \in trace.failed /\ trace.given[u] # 0) =>
            /\ trace.after[u].inputs \in {AsWithoutInput(u).inputs, trace.before[u].inputs}
            /\ trace.after[u].sheeting_angle \in
                  {AsWithoutInput(u).sheeting_angle, trace.before[u].sheeting_angle}
            /\ trace.after[u].target \in {AsWithoutInput(u).target, trace.before[u].target}
            /\ trace.after[u].ap_enabled \in
                  {AsWithoutInput(u).ap_enabled, trace.before[u].ap_enabled}

\* the commands executed in the tick: <<k, n>> for the n-th command of the
\* request at position k
Executed ==
    {kn \in trace.commanded \X (1..1) : kn[2] <= Len(The(trace.user_input[kn[1]].cmds))}
CommandAt(kn) == The(trace.user_input[kn[1]].cmds)[kn[2]]

\* C22: the administrative commands of a tick are executed before any session
\* is advanced, and the tick's responses show their effect:
\*  - after a TOGGLE-PAUSE the sessions are advanced with the global pause
\*    flag as the commands left it (paused: no boat is updated; not paused: the
\*    boat of every enabled session that is not locally paused is updated);
\*  - the update of a session reset by USER-RESET returns the 'reset' event;
\*  - after a STATUS command a response of the tick holds the client states.
C22_CommandsBeforeAdvance ==
    Returned =>
      \A kn \in Executed :
        /\ CommandAt(kn).verb = "TOGGLE-PAUSE" =>
              \A u \in Users :
                  The(trace.applied[u]).boat # Nothing <=>
                      /\ ~sim.paused
                      /\ The(trace.mid[u]).enabled
                      /\ ~The(trace.mid[u]).paused
        /\ CommandAt(kn).verb = "USER-RESET" =>
              \E j \in 1..Len(The(trace.out[CommandAt(kn).user]).events) :
                  The(trace.out[CommandAt(kn).user]).events[j] = "reset"
        /\ CommandAt(kn).verb = "STATUS" =>
              \E c \in DOMAIN sent : sent[c].kind = "state" /\ sent[c].client_states

-----------------------------------------------------------------------------
(* Claims about reset, pause and the travel timer *)

WasReset == "op" \in DOMAIN trace /\ trace.op = "reset"

-----------------------------------------------------------------------------
(* Claims about the autopilot's report *)

Piloted == "op" \in DOMAIN trace /\ trace.op = "autopilot"

\* C24: whenever Autopilot.update reports tacking, the travel time it returns
\* is none, also when the boat is on course for the close-hauled bearing.
C24_NoTravelTimeWhileTacking ==
    (Piloted /\ trace.ret.tacking) => trace.ret.travel_time = Nothing

-----------------------------------------------------------------------------
(* Claims about a free-swinging step *)

\* the angle between two directions
Apart(a, b) == Abs(diff_between_angles(a, b))

\* C25: in a free-swinging step with travel limits, whenever the angle after
\* integration is outside the limits, the angle is set to the nearer of the two
\* limits, limits_reached is set and the force is enabled, from every starting
\* angle, also one outside the limits.
C25_ClampToNearerLimit ==
    ("op" \in DOMAIN trace /\ trace.op = "_update") =>
        LET angle == (trace.before + trace.change) % 360
            lo == trace.travel[1]
            hi == trace.travel[2]
            inside == (angle - lo) % 360 <= (hi - lo) % 360
        IN  ~inside =>
              /\ trace.ret.angle \in {lo, hi}
              /\ Apart(angle, trace.ret.angle) = Min(Apart(angle, lo), Apart(angle, hi))
              /\ trace.ret.limits_reached
              /\ trace.ret.force

-----------------------------------------------------------------------------
(* Claims about the client's events *)

\* the events update handed to u's client in the tick
HandedTo(u) ==
    IF trace.out[u] # Nothing /\ The(trace.out[u]).client_events # Nothing
    THEN The(The(trace.out[u]).client_events) ELSE <<>>

\* u's client was connected and its session's update was without error
Served(u) == trace.given[u] # 0 /\ u \notin trace.failed

\* C26: every client event is returned by exactly one ClientHandler.update
\* call, the first in or after the tick that queued it in which the client is
\* connected and the call is without error, and that call clears it; in ticks
\* without the client or with an error it is kept.  In every tick, the events
\* waiting before it followed by those queued in it are those handed to the
\* client followed by those waiting after it; a served client gets at least all
\* that waited, any other client none.
C26_EventsDeliveredOnce ==
    Returned =>
      \A u \in Users :
        /\ HandedTo(u) \o trace.after[u].client_events
               = trace.before[u].client_events \o trace.log[u]
        /\ Served(u) => Len(HandedTo(u)) >= Len(trace.before[u].client_events)
        /\ Served(u) => \A j \in 1..Len(trace.after[u].client_events) :
                            trace.after[u].client_events[j].name \in {"collision", "shipwreck"}
        /\ ~Served(u) => HandedTo(u) = <<>>

\* events that waited through a tick without the client or with an error
\* are handed to the client together with one queued in the tick
C26_Witness ==
    /\ Returned
    /\ Served("u1")
    /\ trace.before["u1"].client_events # <<>>
    /\ Len(HandedTo("u1")) > Len(trace.before["u1"].client_events)
    /\ trace.after["u1"].client_events = <<>>

-----------------------------------------------------------------------------
(* Claims about the travel timer *)

\* C27: a session's travel timer is never running while the session is paused
\* (locally or globally), finished or shipwrecked.
C27_TimerStoppedWhenIdle ==
    \A u \in Users :
        handlers[u].timer_running =>
            /\ ~handlers[u].paused /\ ~handlers[u].globally_paused
            /\ ~handlers[u].finished
            /\ handlers[u].enabled

\* a finished session that was paused is unpaused
C27_Witness ==
    /\ Returned
    /\ trace.before["u1"].finished /\ trace.before["u1"].paused
    /\ handlers["u1"].finished /\ ~handlers["u1"].paused /\ ~sim.paused

\* C28: a tick leaves the boat of a paused session whose reset is not asked
\* for unchanged in position, velocity, angular velocity and hull durability,
\* also when its hull touches land or another boat.  Paused: before and after
\* the tick.
C28_PausedBoatUnchanged ==
    Returned =>
      \A u \in Users :
        (/\ get_paused_state(trace.before[u])
         /\ get_paused_state(trace.after[u])
         /\ Logged(u, "reset") = {}) =>
            /\ trace.after[u].pos = trace.before[u].pos
            /\ trace.after[u].velocity = trace.before[u].velocity
            /\ trace.after[u].angular_velocity = trace.before[u].angular_velocity
            /\ trace.after[u].hull = trace.before[u].hull

-----------------------------------------------------------------------------
(* Claims about the autopilot of a shipwrecked boat *)

\* C29: from the end of the tick of its shipwreck until its next reset, a
\* session's autopilot is disabled and the 'autopilot' input of its rudder
\* arbiter is empty, with the client connected or absent.  (A session is
\* disabled by its shipwreck and enabled again by a reset only.)
C29_NoAutopilotWhenWrecked ==
    \A u \in Users :
        ~handlers[u].enabled =>
            /\ ~handlers[u].ap_enabled
            /\ handlers[u].inputs["autopilot"] = Nothing

-----------------------------------------------------------------------------
(* Claims about the motion of a boat *)

\* C30: with no net force and no torque, one Sailboat.update of duration dt
\* moves the position by velocity * dt and the heading by
\* angular velocity * dt (modulo 360) and leaves both velocities unchanged.
C30_CoastingMotion ==
    ("op" \in DOMAIN trace /\ trace.op = "motion" /\ trace.acc = 0 /\ trace.alpha = 0) =>
        /\ handlers["u1"].pos = trace.before.pos + trace.before.velocity * trace.frame_t
        /\ handlers["u1"].angle =
               (trace.before.angle + trace.before.angular_velocity * trace.frame_t) % 360
        /\ handlers["u1"].velocity = trace.before.velocity
        /\ handlers["u1"].angular_velocity = trace.before.angular_velocity

=============================================================================
